---- MODULE Spec2Model ----
(***************************************************************************)
(* Radar timeline and wind field of the rain-today-web client              *)
(* (src/unnamed/part_001).                                                 *)
(*                                                                         *)
(* The state is the script's module-level variables (map, frames,          *)
(* frameIndex, anim, radarLayer) together with the DOM controls the radar  *)
(* code reads and writes (the #timeline range input, the time label, the   *)
(* status line, the play button and the two radar checkboxes), the         *)
(* browser's table of active interval timers with the timer tasks already  *)
(* queued, and the loadRadarFrames() calls suspended at an await.          *)
(*                                                                         *)
(* Every function of the radar section is an operator from a state record  *)
(* to a state record, so that a handler that calls several functions is    *)
(* one action.  The actions are the page's event handlers (initMap, slider *)
(* input, play click, checkbox changes, timer tick, promise settlement)    *)
(* and the four timeline functions called on their own once the map        *)
(* exists: loadRadarFrames(), showRadarFrame(i), startRadarAuto(),         *)
(* stopRadarAuto().                                                        *)
(*                                                                         *)
(* The wind field adds the viewport and the particle canvas, the particle  *)
(* pool with its redraw callbacks, the shared center wind with the         *)
(* refreshCenterWind() calls in flight, and the two glyph layers with the  *)
(* drawWindArrows() calls suspended at a sample group.  The components are *)
(* explored by one specification each over the same state and the same     *)
(* initMap: Spec (radar timeline), ParticleSpec (particle field) and       *)
(* ArrowSpec (center wind and glyph layers).                               *)
(*                                                                         *)
(* The remaining parts of the page have their state in the same record and *)
(* a specification each: RainSpec (rain-direction layer under map moves),  *)
(* ClickSpec (click popup), LoopsSpec (radar timer and particle loop side  *)
(* by side), FavSpec (favorites store), SearchSpec (search box with its    *)
(* timer and requests), AlertSpec (alert checks), and PageSpec and         *)
(* TimelineSpec (the radar timeline driven by the page's handlers alone,   *)
(* and without showRadarFrame(i) called by itself).                        *)
(***************************************************************************)
EXTENDS Integers, Sequences, FiniteSets, TLC

\* ---------------------------------------------------------------- bounds
MaxPast == 2          \* longest "past" segment a catalog response carries
MaxNowcast == 1       \* longest "nowcast" segment a catalog response carries
InitSliderMax == 1    \* largest max attribute the page may give #timeline
MaxSide == 2          \* largest width and height of the window, in steps of 7 pixels
MaxLoops == 2         \* most redraw callbacks requested and not yet run
MaxCenter == 1        \* most refreshCenterWind() calls in flight
MaxRenders == 2       \* most drawWindArrows() calls suspended at a sample group
MaxFailing == 2       \* the first MaxFailing points of a lattice may fail to sample
MaxPlace == 1         \* the map is centred on one of the places 0 .. MaxPlace
MaxOverlap == 2       \* most refreshCenterWind() calls in flight while the map is moved about
MaxSeries == 3        \* longest 15-minute precipitation series a forecast carries
MaxClicks == 1        \* most onMapClick() calls in flight
MaxAdds == 7          \* most addFavorite() calls in a run
MaxSearches == 2      \* most searchCity() calls in flight
MaxHours == 2         \* the hourly wind series of every content have up to MaxHours values
MaxAlerts == 1        \* most checkAlerts() calls in flight

\* ------------------------------------------------------------- constants
Null == 0             \* `let anim = null`: no timer handle
Stale == 0            \* in due: the queued task of a timer that has been cleared
NaN == -1000000       \* NaN, as `x % 0` gives: no index, coordinate or wind component is that small
TileSize == 256

Loading == "Chargement radar..."
Unavailable == "Radar indisponible"
Ready == "Radar pret"
ErrorText == "Erreur radar"
PlayIcon == "play"      \* the triangle glyph
PauseIcon == "pause"    \* the double-bar glyph
NoLabel == <<>>             \* the label before any frame has been shown

VARIABLES
  map,             \* TRUE once initMap has assigned the Leaflet map
  frames,          \* the frame list, a sequence of [time, path]
  frameIndex,      \* the cursor (0-based, as in the script)
  anim,            \* the interval handle, Null when not playing
  radarLayer,      \* [created, url, onMap]: the tile layer and its attachment
  slider,          \* [min, max, value] of the #timeline range input
  timeLabel,       \* text of #timeLabel
  statusText,      \* text of #status
  playBtnText,     \* text of #playBtn
  radarToggle,     \* radarToggle.checked
  rainAutoToggle,  \* rainAutoToggle.checked
  timers,          \* handles of the browser's active interval timers
  due,             \* handles whose timer task is queued and has not run yet
  loadTask,        \* where the loadRadarFrames() call in progress is suspended
  viewport,        \* [w, h]: window.innerWidth and window.innerHeight
  canvas,          \* [w, h, ink]: size of windCanvas and whether it holds any paint
  dark,            \* document.body carries the class "dark"
  windRunning,     \* the particle field's running flag
  windParticles,   \* the pool: [length, head], its length and its first particle
  windCenter,      \* the shared center wind, a sample [spd, deg, u, v]
  rafPending,      \* [fresh, stale]: loopParticles callbacks requested and not yet run
  windParticlesToggle,  \* windParticlesToggle.checked
  rainDirToggle,   \* rainDirToggle.checked
  windArrowsToggle,     \* windArrowsToggle.checked
  mapCenter,       \* the place map.getCenter() returns
  centerTasks,     \* the refreshCenterWind() calls in flight, oldest first, each
                   \* [then, at]: what its caller does next and the center it samples
  windArrowLayer,  \* the wind-arrow layer group <<[id, glyphs]>>, <<>> for null
  rainDirLayer,    \* the rain-direction layer group <<[id, glyphs]>>, <<>> for null
  mapLayers,       \* ids of the layer groups attached to the map
  renders,         \* the drawWindArrows() calls suspended at a sample group
  clickTasks,      \* the number of onMapClick() calls suspended at their forecast
  rain15,          \* the 15-minute precipitation series the last onMapClick() read
  popup,           \* [kind, ev]: what the popup on the map shows
  favs,            \* the favorites in localStorage, newest first, each [name, at]
  adds,            \* the number of addFavorite() calls so far, which names the next favorite
  citySearch,      \* citySearch.value, a sequence of characters
  searchT,         \* the variable t of initSearchUI: the handle of the last timer set, 0 for null
  searchTimers,    \* the pending search timers, each [h, q]: its handle and the query of its callback
  searchTasks,     \* the queries of the searchCity() calls in flight, oldest first
  searchResults,   \* the results panel [hidden, items]: its class and the query its entries answer
  lastQuery,       \* the query of the searchCity() call issued last, <<>> before the first
  alertTasks,      \* the checkAlerts() calls in flight, oldest first, each the place it asks about
  windH,           \* the hourly wind speeds the last checkAlerts() read
  alertState,      \* the keys of the alert store whose cooldown has not passed
  alertToasts,     \* the toasts the last checkAlerts() pushed
  lastOp           \* the step that ran last, [name, arg, data]: a timeline function with
                   \* its argument, a tick, a settled load, a drawWindArrows() call
                   \* that ended in an uncaught error, or any other event

vars == <<map, frames, frameIndex, anim, radarLayer, slider, timeLabel,
          statusText, playBtnText, radarToggle, rainAutoToggle, timers, due,
          loadTask, viewport, canvas, dark, windRunning, windParticles,
          windCenter, rafPending, windParticlesToggle, rainDirToggle,
          windArrowsToggle, mapCenter, centerTasks, windArrowLayer, rainDirLayer,
          mapLayers, renders, clickTasks, rain15, popup,
          favs,
          adds,
          citySearch,
          searchT,
          searchTimers,
          searchTasks,
          searchResults,
          lastQuery,
          alertTasks,
          windH,
          alertState,
          alertToasts, lastOp>>

\* The part of the state the radar functions read and write.
radarVars == <<map, frames, frameIndex, anim, radarLayer, slider, timeLabel,
               statusText, playBtnText, radarToggle, rainAutoToggle, timers, due>>

\* The part of the state the wind field reads and writes.
windVars == <<viewport, canvas, dark, windRunning, windParticles, windCenter,
              rafPending, windParticlesToggle, rainDirToggle, windArrowsToggle,
              mapCenter, centerTasks, windArrowLayer, rainDirLayer, mapLayers, renders>>

\* The part of the state the click popup reads and writes.
popupVars == <<clickTasks, rain15, popup>>

\* ------------------------------------------------------------ data model
\* A RainViewer frame {time, path}; frames of one catalog are 10 minutes apart.
Frame(k) == [time |-> 600 * k, path |-> k]

\* The arrays data.radar.past and data.radar.nowcast of a catalog response.
PastOf(p) == [i \in 1..p |-> Frame(i)]
NowcastOf(p, q) == [i \in 1..q |-> Frame(p + i)]

NoData == [past |-> <<>>, nowcast |-> <<>>]

\* The catalogs `await res.json()` can deliver.
Catalogs ==
  {[past |-> PastOf(p), nowcast |-> NowcastOf(p, q)] : p \in 0..MaxPast, q \in 0..MaxNowcast}

\* `frames[i]` is truthy: i is an index of the array (NaN and negatives are not).
HasFrame(fs, i) == i # NaN /\ i >= 0 /\ i < Len(fs)
FrameAt(fs, i) == fs[i + 1]

\* The tile URL template with the frame's path substituted.
TileUrl(f) == <<"https://tilecache.rainviewer.com", f.path, TileSize, "{z}/{x}/{y}", 2, "1_1.png">>
NoUrl == <<>>

\* toLocaleTimeString("fr-FR", hour and minute): the minute of the day.
FormatTime(t) == <<((t \div 60) % 1440) \div 60, ((t \div 60) % 1440) % 60>>

\* The tick without the modulo.
NextIndex_NoWrap(i, n) == IF i = NaN THEN NaN ELSE i + 1

\* (frameIndex + 1) % frames.length in JavaScript arithmetic.
NextIndex(i, n) == IF i = NaN \/ n = 0 THEN NaN ELSE (i + 1) % n

\* Value sanitization of <input type=range step=1>: a number is clamped to
\* [min, max], anything else becomes the default value (the midpoint).
Sanitize(v, lo, hi) ==
  IF hi < lo THEN lo
  ELSE IF v = NaN THEN (lo + hi + 1) \div 2
  ELSE IF v < lo THEN lo
  ELSE IF v > hi THEN hi
  ELSE v

SetSliderValue(sl, v) == [sl EXCEPT !.value = Sanitize(v, sl.min, sl.max)]
SetSliderMin(sl, m) == [min |-> m, max |-> sl.max, value |-> Sanitize(sl.value, m, sl.max)]
SetSliderMax(sl, m) == [min |-> sl.min, max |-> m, value |-> Sanitize(sl.value, sl.min, m)]

\* setInterval returns a handle that names no active timer.
NewHandle(s) == CHOOSE h \in 1..(Cardinality(s.timers) + 1) : h \notin s.timers

\* ------------------------------------------------------ wind data model
Undefined == -2000000 \* `undefined`, what array[0] gives for an empty array

\* Math.sin and Math.cos of a bearing in degrees, in thousandths, for the
\* multiples of 30 degrees.
SinQ(d) == CASE d = 0 -> 0 [] d = 30 -> 500 [] d = 60 -> 866 [] d = 90 -> 1000
Sin1000(d) ==
  IF d <= 90 THEN SinQ(d)
  ELSE IF d <= 180 THEN SinQ(180 - d)
  ELSE IF d <= 270 THEN 0 - SinQ(d - 180)
  ELSE 0 - SinQ(360 - d)
Cos1000(d) == Sin1000((d + 90) % 360)

\* The flow bearing taken as the source bearing itself.
toDeg_NoFlip(deg) == IF deg = Undefined THEN NaN ELSE deg % 360

\* `(deg + 180) % 360`: the bearing the air moves toward.
toDeg(deg) == IF deg = Undefined THEN NaN ELSE (deg + 180) % 360

\* A product of two JavaScript numbers, one of them possibly NaN or undefined.
Times(a, b) == IF a = NaN \/ b = Undefined THEN NaN ELSE a * b

\* What the forecast request of fetchPointWind can come to: the fetch rejects,
\* the body does not parse, the payload has no hourly block, the hourly block
\* lacks the two arrays, or the payload carries the two arrays spd and deg.
Failures == {"networkError", "badBody", "noHourly", "noArrays"}
Payload(spd, deg) == [kind |-> "payload", spd |-> spd, deg |-> deg]
Failure(k) == [kind |-> k, spd |-> <<>>, deg |-> <<>>]
First(a) == IF Len(a) = 0 THEN Undefined ELSE a[1]

\* The result of `await fetchPointWind(..)`: <<>> for null, <<w>> for a sample.
NoSample == <<>>

\* fetchPointWind once its request has settled with resp; speeds are in km/h
\* and the flow components u and v in thousandths of a km/h.
fetchPointWind(resp) ==
  IF resp.kind \in Failures THEN NoSample
  ELSE LET spd == First(resp.spd)
           deg == First(resp.deg)
           to == toDeg(deg)
       IN  << [spd |-> spd, deg |-> deg,
               u |-> Times(IF to = NaN THEN NaN ELSE Sin1000(to), spd),
               v |-> Times(IF to = NaN THEN NaN ELSE Cos1000(to), spd)] >>

\* A sample whose four fields are numbers.
WellFormed(w) == w.spd >= 0 /\ w.deg >= 0 /\ w.deg < 360 /\ w.u # NaN /\ w.v # NaN

\* `let windCenter = { spd: 0, deg: 0, u: 0, v: 0 }`.
CalmWind == [spd |-> 0, deg |-> 0, u |-> 0, v |-> 0]

\* The forecasts the model's service answers with: one wind, and the payload
\* whose two arrays are empty.
ModelSpeed == 50
ModelBearing == 90
Responses ==
  {Failure(k) : k \in Failures}
    \cup {Payload(<<ModelSpeed>>, <<ModelBearing>>), Payload(<<>>, <<>>)}

\* The places the map can be centred on, the forecast at each of them (place
\* 0 has the wind above), and what a request for a place can come to.
Places == 0..MaxPlace
PlaceForecast(c) == Payload(<<ModelSpeed + 10 * c>>, <<(ModelBearing + 90 * c) % 360>>)
ResponsesAt(c) ==
  {Failure(k) : k \in Failures} \cup {PlaceForecast(c), Payload(<<>>, <<>>)}

\* Precipitation is in hundredths of a millimetre.  computeRainEvent15(arr):
\* the first run of values above the threshold, as start and length in
\* minutes and as the sum of the run; startMin is null when there is none.
RainThreshold == 10
NoStart == 0 - 1
NoEvent == [startMin |-> NoStart, durationMin |-> 0, totalMm |-> 0]

\* The first loop: the least index from i on whose value is above the
\* threshold, 0 if the loop runs out.
RECURSIVE FirstWet(_, _)
FirstWet(arr, i) ==
  IF i > Len(arr) THEN 0
  ELSE IF arr[i] > RainThreshold THEN i
  ELSE FirstWet(arr, i + 1)

\* The second loop from index i with total and end so far, until a value is
\* not above the threshold.
RECURSIVE RunFrom(_, _, _, _)
RunFrom(arr, i, total, end) ==
  IF i > Len(arr) \/ ~(arr[i] > RainThreshold) THEN [total |-> total, end |-> end]
  ELSE RunFrom(arr, i + 1, total + arr[i], i)

\* computeRainEvent15 counting the start from one.
computeRainEvent15_OneBased(arr) ==
  LET start == FirstWet(arr, 1)
      run == RunFrom(arr, start, 0, start)
  IN  IF Len(arr) = 0 \/ start = 0 THEN NoEvent
      ELSE [startMin |-> start * 15,
            durationMin |-> (run.end - start + 1) * 15,
            totalMm |-> run.total]

computeRainEvent15(arr) ==
  LET start == FirstWet(arr, 1)
      run == RunFrom(arr, start, 0, start)
  IN  IF Len(arr) = 0 \/ start = 0 THEN NoEvent
      ELSE [startMin |-> (start - 1) * 15,
            durationMin |-> (run.end - start + 1) * 15,
            totalMm |-> run.total]

\* The series the forecast service answers a click with: every series of up
\* to MaxSeries values, and one longer series.
RainValues == {0, 5, 10, 30}
RECURSIVE SeriesOfLen(_)
SeriesOfLen(n) ==
  IF n = 0 THEN {<<>>} ELSE {Append(q, v) : q \in SeriesOfLen(n - 1), v \in RainValues}
LongSeries == <<0, 0, 5, 30, 40, 0, 20>>
Series == UNION {SeriesOfLen(n) : n \in 0..MaxSeries} \cup {LongSeries}

\* The popup: none yet, the error text, or the forecast with its rain event.
NoPopup == [kind |-> "none", ev |-> NoEvent]
ErrorPopup == [kind |-> "error", ev |-> NoEvent]

\* onMapClick once its forecast has settled: with a series, or with a failed
\* request (the catch branch).
onMapClickSettled(s, ok, arr) ==
  IF ok THEN [s EXCEPT !.clickTasks = s.clickTasks - 1,
                       !.rain15 = arr,
                       !.popup = [kind |-> "forecast", ev |-> computeRainEvent15(arr)]]
  ELSE [s EXCEPT !.clickTasks = s.clickTasks - 1, !.popup = ErrorPopup]

\* The part of the state the favorites, the search box and the alert
\* checks read and write.
sideVars == <<favs, adds, citySearch, searchT, searchTimers, searchTasks, searchResults, lastQuery, alertTasks, windH, alertState, alertToasts>>

\* ------------------------------------------------------- radar functions
State == [map |-> map, frames |-> frames, frameIndex |-> frameIndex,
          anim |-> anim, radarLayer |-> radarLayer, slider |-> slider,
          timeLabel |-> timeLabel, statusText |-> statusText,
          playBtnText |-> playBtnText, radarToggle |-> radarToggle,
          rainAutoToggle |-> rainAutoToggle, timers |-> timers, due |-> due,
          viewport |-> viewport, canvas |-> canvas, dark |-> dark,
          windRunning |-> windRunning, windParticles |-> windParticles,
          windCenter |-> windCenter, rafPending |-> rafPending,
          windParticlesToggle |-> windParticlesToggle,
          rainDirToggle |-> rainDirToggle, windArrowsToggle |-> windArrowsToggle,
          mapCenter |-> mapCenter,
          centerTasks |-> centerTasks, windArrowLayer |-> windArrowLayer,
          rainDirLayer |-> rainDirLayer, mapLayers |-> mapLayers, renders |-> renders,
          clickTasks |-> clickTasks, rain15 |-> rain15, popup |-> popup,
          favs |-> favs,
          adds |-> adds,
          citySearch |-> citySearch,
          searchT |-> searchT,
          searchTimers |-> searchTimers,
          searchTasks |-> searchTasks,
          searchResults |-> searchResults,
          lastQuery |-> lastQuery,
          alertTasks |-> alertTasks,
          windH |-> windH,
          alertState |-> alertState,
          alertToasts |-> alertToasts]

Commit(s) ==
  /\ map' = s.map
  /\ frames' = s.frames
  /\ frameIndex' = s.frameIndex
  /\ anim' = s.anim
  /\ radarLayer' = s.radarLayer
  /\ slider' = s.slider
  /\ timeLabel' = s.timeLabel
  /\ statusText' = s.statusText
  /\ playBtnText' = s.playBtnText
  /\ radarToggle' = s.radarToggle
  /\ rainAutoToggle' = s.rainAutoToggle
  /\ timers' = s.timers
  /\ due' = s.due
  /\ viewport' = s.viewport
  /\ canvas' = s.canvas
  /\ dark' = s.dark
  /\ windRunning' = s.windRunning
  /\ windParticles' = s.windParticles
  /\ windCenter' = s.windCenter
  /\ rafPending' = s.rafPending
  /\ windParticlesToggle' = s.windParticlesToggle
  /\ rainDirToggle' = s.rainDirToggle
  /\ windArrowsToggle' = s.windArrowsToggle
  /\ mapCenter' = s.mapCenter
  /\ centerTasks' = s.centerTasks
  /\ windArrowLayer' = s.windArrowLayer
  /\ rainDirLayer' = s.rainDirLayer
  /\ mapLayers' = s.mapLayers
  /\ renders' = s.renders
  /\ clickTasks' = s.clickTasks
  /\ rain15' = s.rain15
  /\ popup' = s.popup
  /\ favs' = s.favs
  /\ adds' = s.adds
  /\ citySearch' = s.citySearch
  /\ searchT' = s.searchT
  /\ searchTimers' = s.searchTimers
  /\ searchTasks' = s.searchTasks
  /\ searchResults' = s.searchResults
  /\ lastQuery' = s.lastQuery
  /\ alertTasks' = s.alertTasks
  /\ windH' = s.windH
  /\ alertState' = s.alertState
  /\ alertToasts' = s.alertToasts

\* showRadarFrame taking the frame at the cursor instead of the frame asked for.
showRadarFrame_Cursor(s, i) ==
  IF ~HasFrame(s.frames, i) \/ ~HasFrame(s.frames, s.frameIndex) \/ ~s.map THEN s
  ELSE [s EXCEPT !.radarLayer =
          [created |-> TRUE, url |-> TileUrl(FrameAt(s.frames, s.frameIndex)),
           onMap |-> IF s.radarLayer.created THEN s.radarLayer.onMap \/ s.radarToggle ELSE TRUE]]

\* showRadarFrame clamping an index beyond the list to its last frame.
showRadarFrame_Clamps(s, i) ==
  IF Len(s.frames) = 0 \/ i = NaN \/ i < 0 \/ ~s.map THEN s
  ELSE LET j == IF i < Len(s.frames) THEN i ELSE Len(s.frames) - 1
       IN  [s EXCEPT !.radarLayer =
              [created |-> TRUE, url |-> TileUrl(FrameAt(s.frames, j)),
               onMap |-> IF s.radarLayer.created THEN s.radarLayer.onMap \/ s.radarToggle ELSE TRUE]]

showRadarFrame(s, i) ==
  IF ~HasFrame(s.frames, i) \/ ~s.map THEN s
  ELSE IF ~s.radarLayer.created
    THEN [s EXCEPT !.radarLayer =
            [created |-> TRUE, url |-> TileUrl(FrameAt(s.frames, i)), onMap |-> TRUE]]
    ELSE [s EXCEPT !.radarLayer =
            [created |-> TRUE, url |-> TileUrl(FrameAt(s.frames, i)),
             onMap |-> s.radarLayer.onMap \/ s.radarToggle]]

\* updateTimeLabel naming the first frame instead of the one under the cursor.
updateTimeLabel_First(s) ==
  IF ~HasFrame(s.frames, s.frameIndex) THEN s
  ELSE [s EXCEPT !.timeLabel = FormatTime(FrameAt(s.frames, 0).time)]

updateTimeLabel(s) ==
  IF ~HasFrame(s.frames, s.frameIndex) THEN s
  ELSE [s EXCEPT !.timeLabel = FormatTime(FrameAt(s.frames, s.frameIndex).time)]

\* The tick that also wipes the particle canvas and its pool.
tickCallback_Wipes(s) ==
  LET i == NextIndex(s.frameIndex, Len(s.frames))
      s1 == [s EXCEPT !.frameIndex = i, !.slider = SetSliderValue(s.slider, i)]
  IN  [updateTimeLabel(showRadarFrame(s1, i)) EXCEPT
         !.canvas.ink = FALSE, !.windParticles = [length |-> 0, head |-> <<>>]]

\* The tick showing the frame it came from instead of the one it moved to.
tickCallback_Stale(s) ==
  LET i == NextIndex(s.frameIndex, Len(s.frames))
      s1 == [s EXCEPT !.slider = SetSliderValue(s.slider, i)]
  IN  [updateTimeLabel(showRadarFrame(s1, s.frameIndex)) EXCEPT !.frameIndex = i]

\* The callback startRadarAuto hands to setInterval.
tickCallback(s) ==
  LET i == NextIndex(s.frameIndex, Len(s.frames))
      s1 == [s EXCEPT !.frameIndex = i, !.slider = SetSliderValue(s.slider, i)]
  IN  updateTimeLabel(showRadarFrame(s1, i))

\* startRadarAuto without the `anim ||` half of its guard.
startRadarAuto_NoGuard(s) ==
  IF Len(s.frames) = 0 THEN s
  ELSE LET h == NewHandle(s)
       IN  [s EXCEPT !.playBtnText = PauseIcon, !.anim = h, !.timers = s.timers \cup {h}]

startRadarAuto(s) ==
  IF s.anim # Null \/ Len(s.frames) = 0 THEN s
  ELSE LET h == NewHandle(s)
       IN  [s EXCEPT !.playBtnText = PauseIcon, !.anim = h, !.timers = s.timers \cup {h}]

\* stopRadarAuto forgetting the handle without clearInterval.
stopRadarAuto_NoClear(s) ==
  IF s.anim = Null THEN s
  ELSE [s EXCEPT !.anim = Null]

\* clearInterval(h): the timer is no longer active, and a task it has already
\* queued stays queued but will find its timer gone.
clearInterval(s, h) ==
  [s EXCEPT !.timers = s.timers \ {h},
            !.due = IF h \in s.due THEN (s.due \ {h}) \cup {Stale} ELSE s.due]

stopRadarAuto(s) ==
  IF s.anim = Null THEN s
  ELSE [clearInterval(s, s.anim) EXCEPT !.anim = Null]

\* loadRadarFrames up to its first await.
loadBegin(s) == [s EXCEPT !.statusText = Loading]

\* loadRadarFrames starting at the oldest frame instead of the newest past one.
loadParsed_Oldest(s, data) ==
  LET s1 == [s EXCEPT !.frames = data.past \o data.nowcast]
  IN  IF Len(s1.frames) = 0 THEN [s1 EXCEPT !.statusText = Unavailable]
      ELSE LET s2 == [s1 EXCEPT !.frameIndex = 0]
               s3 == [s2 EXCEPT !.slider = SetSliderMin(s2.slider, 0)]
               s4 == [s3 EXCEPT !.slider = SetSliderMax(s3.slider, Len(s3.frames) - 1)]
               s5 == [s4 EXCEPT !.slider = SetSliderValue(s4.slider, s4.frameIndex)]
               s6 == updateTimeLabel(showRadarFrame(s5, s5.frameIndex))
           IN  [s6 EXCEPT !.statusText = Ready]

\* loadRadarFrames after `await res.json()` has delivered data.
loadParsed(s, data) ==
  LET past == data.past
      nowcast == data.nowcast
      s1 == [s EXCEPT !.frames = past \o nowcast]
  IN  IF Len(s1.frames) = 0 THEN [s1 EXCEPT !.statusText = Unavailable]
      ELSE LET fi == IF Len(past) - 1 > 0 THEN Len(past) - 1 ELSE 0
               s2 == [s1 EXCEPT !.frameIndex = fi]
               s3 == [s2 EXCEPT !.slider = SetSliderMin(s2.slider, 0)]
               s4 == [s3 EXCEPT !.slider = SetSliderMax(s3.slider, Len(s3.frames) - 1)]
               s5 == [s4 EXCEPT !.slider = SetSliderValue(s4.slider, s4.frameIndex)]
               s6 == updateTimeLabel(showRadarFrame(s5, s5.frameIndex))
           IN  [s6 EXCEPT !.statusText = Ready]

\* A catch block that also drops the frame list.
loadCatch_Clears(s) == [s EXCEPT !.statusText = ErrorText, !.frames = <<>>]

\* The catch block of loadRadarFrames.
loadCatch(s) == [s EXCEPT !.statusText = ErrorText]

\* An input listener that stops playback before it jumps.
sliderInput_Pauses(s) ==
  LET s1 == [stopRadarAuto(s) EXCEPT !.frameIndex = s.slider.value]
  IN  updateTimeLabel(showRadarFrame(s1, s1.frameIndex))

\* sliderEl "input" listener; the control already holds the value moved to.
sliderInput(s) ==
  LET s1 == [s EXCEPT !.frameIndex = s.slider.value]
  IN  updateTimeLabel(showRadarFrame(s1, s1.frameIndex))

\* playBtnEl "click" listener.
playBtnClick(s) ==
  IF Len(s.frames) = 0 THEN s
  ELSE IF s.anim # Null
    THEN [stopRadarAuto(s) EXCEPT !.rainAutoToggle = FALSE, !.playBtnText = PlayIcon]
    ELSE [startRadarAuto([s EXCEPT !.rainAutoToggle = TRUE]) EXCEPT !.playBtnText = PauseIcon]

\* rainAutoToggle "change" listener; the checkbox already holds its new state.
rainAutoChange(s) == IF s.rainAutoToggle THEN startRadarAuto(s) ELSE stopRadarAuto(s)

\* radarToggle "change" listener; the checkbox already holds its new state.
radarToggleChange(s) ==
  IF ~s.radarLayer.created THEN s
  ELSE [s EXCEPT !.radarLayer.onMap = s.radarToggle]

\* ------------------------------------------------------ particle field
PoolSize == 650       \* `const count = 650`
InitAge == 120        \* a new particle's age is Math.random() * 120
MaxAge == 150         \* a particle older than this is respawned
Dpr == 2              \* window.devicePixelRatio of the display

\* The sizes the window can take: a particle in the model's wind travels 7
\* pixels a tick, and the sides are whole numbers of such steps.
ViewportSides == {7 * k : k \in 1..MaxSide}
Viewports == {[w |-> w, h |-> h] : w \in ViewportSides, h \in ViewportSides}

\* The values Math.random() takes, in hundredths: both ends for a position,
\* the upper end for an age, so that a particle lives some thirty ticks.
Randoms == {0, 99}
AgeRandoms == {99}

\* `Math.random() * n` with its fraction dropped.
Scaled(r, n) == (r * n) \div 100

\* newParticle(): one Math.random() each for x, y and age.
Draws(s) ==
  {[x |-> Scaled(rx, s.viewport.w), y |-> Scaled(ry, s.viewport.h), age |-> Scaled(ra, InitAge)] :
     rx \in Randoms, ry \in Randoms, ra \in AgeRandoms}

\* Setting the canvas's width or height also clears its bitmap.
resizeWindCanvas(s) ==
  [s EXCEPT !.canvas = [w |-> s.viewport.w * Dpr, h |-> s.viewport.h * Dpr, ink |-> FALSE]]

clearCanvas(s) == [s EXCEPT !.canvas.ink = FALSE]

\* initParticles(): count particles are pushed; p is the first of them.
initParticles(s, p) == [s EXCEPT !.windParticles = [length |-> PoolSize, head |-> <<p>>]]

\* clamp(spd / 25, 0.2, 2.6) in hundredths, where spd is `windCenter.spd || 0`.
SpeedFactor100(spd) ==
  LET q == IF spd = Undefined \/ spd = NaN THEN 0 ELSE 4 * spd
  IN  IF q < 20 THEN 20 ELSE IF q > 260 THEN 260 ELSE q

\* `c * 0.07 * speedFactor` in pixels, for a flow component c in thousandths.
Advect(c, spd) == IF c = NaN THEN NaN ELSE (c * 7 * SpeedFactor100(spd)) \div 10000000

Plus(a, b) == IF a = NaN \/ b = NaN THEN NaN ELSE a + b
Minus(a, b) == IF a = NaN \/ b = NaN THEN NaN ELSE a - b
Less(a, b) == a # NaN /\ b # NaN /\ a < b

\* The loop moving its particles by the wind the page started with, kept as
\* a copy of its own.
advected_Initial(s, p) ==
  [x |-> Plus(p.x, Advect(CalmWind.u, CalmWind.spd)),
   y |-> Minus(p.y, Advect(CalmWind.v, CalmWind.spd)),
   age |-> p.age + 1]

\* The body of loopParticles' for loop for one particle; r is the particle
\* newParticle() gives if this one is respawned.
advected(s, p) ==
  [x |-> Plus(p.x, Advect(s.windCenter.u, s.windCenter.spd)),
   y |-> Minus(p.y, Advect(s.windCenter.v, s.windCenter.spd)),
   age |-> p.age + 1]

\* The condition under which the loop respawns the particle it has moved to q.
leaves(s, q) ==
  \/ Less(q.x, 0) \/ Less(s.viewport.w, q.x)
  \/ Less(q.y, 0) \/ Less(s.viewport.h, q.y)
  \/ q.age > MaxAge

moveParticle(s, p, r) == IF leaves(s, advected(s, p)) THEN r ELSE advected(s, p)

\* loopParticles growing the pool by the particle it respawns.
loopParticles_Pushes(s, r) ==
  IF ~s.windRunning THEN s
  ELSE LET ps == s.windParticles
           q == IF ps.head = <<>> THEN <<>> ELSE <<moveParticle(s, ps.head[1], r)>>
       IN  [s EXCEPT !.canvas.ink = TRUE,
                     !.windParticles =
                        [length |-> IF q = <<r>> THEN ps.length + 1 ELSE ps.length, head |-> q],
                     !.rafPending.fresh = s.rafPending.fresh + 1]

\* loopParticles(): one redraw, then requestAnimationFrame(loopParticles).
loopParticles(s, r) ==
  IF ~s.windRunning THEN s
  ELSE LET ps == s.windParticles
           q == IF ps.head = <<>> THEN <<>> ELSE <<moveParticle(s, ps.head[1], r)>>
       IN  [s EXCEPT !.canvas.ink = TRUE,
                     !.windParticles = [length |-> ps.length, head |-> q],
                     !.rafPending.fresh = s.rafPending.fresh + 1]

startWindParticles(s, p, r) ==
  loopParticles(initParticles([s EXCEPT !.windRunning = TRUE], p), r)

\* The pending callbacks are counted in two lots that the page does not
\* tell apart: stale are those that were pending when stopWindParticles()
\* last ran, fresh the others.
Pending(s) == s.rafPending.fresh + s.rafPending.stale

stopWindParticles(s) ==
  clearCanvas([s EXCEPT !.windRunning = FALSE,
                        !.windParticles = [length |-> 0, head |-> <<>>],
                        !.rafPending = [fresh |-> 0, stale |-> Pending(s)]])

\* ------------------------------------------------------- glyph layers
WindNx == 9
WindNy == 6
RainNx == 7
RainNy == 5
BatchSize == 8
SpeedFloor == 10      \* Math.max(10, windCenter.spd)

\* The lattice the two nested loops build over the visible bounds b, row by
\* row from the south: point k lies at x/(nx-1) of the way from west to east
\* and y/(ny-1) of the way from south to north.
Lattice(nx, ny) ==
  [k \in 1..(nx * ny) |->
     [lon |-> <<(k - 1) % nx, nx - 1>>, lat |-> <<(k - 1) \div nx, ny - 1>>]]

\* pts.slice(i, i + batchSize) as the indices of its points.
Batch(n, i) == (i + 1)..(IF i + BatchSize < n THEN i + BatchSize ELSE n)

NoLayer == <<>>

\* ids of the layer groups and lattices the script or the map still holds.
UsedIds(s) ==
  s.mapLayers
    \cup {s.windArrowLayer[j].id : j \in 1..Len(s.windArrowLayer)}
    \cup {s.rainDirLayer[j].id : j \in 1..Len(s.rainDirLayer)}
    \cup {s.renders[j].gen : j \in 1..Len(s.renders)}
    \cup UNION {{g.gen : g \in s.windArrowLayer[j].glyphs} : j \in 1..Len(s.windArrowLayer)}

\* L.layerGroup(..) makes a new object.
NewLayerId(s) == CHOOSE id \in 1..(Cardinality(UsedIds(s)) + 1) : id \notin UsedIds(s)

\* An arrow rotated to the flow bearing; its colour is taken from spd.
arrowIcon_Source(spd, degFrom, kind) ==
  [rot |-> IF degFrom = Undefined \/ degFrom = NaN THEN NaN ELSE degFrom % 360,
   spd |-> spd, kind |-> kind]

arrowIcon(spd, degFrom, kind) ==
  [rot |-> IF degFrom = Undefined \/ degFrom = NaN THEN NaN ELSE (degFrom + 180) % 360,
   spd |-> spd, kind |-> kind]

\* L.marker([lat, lon], {icon}) at point k of the lattice that call gen
\* built over the bounds it found.
Marker(gen, k, icon) == [gen |-> gen, pt |-> k, icon |-> icon]

\* Each suspended drawWindArrows() call carries a mark, solo, that is not
\* part of the page: TRUE while no other call and no clear has happened
\* since it started.
Overlapped(q) == [j \in 1..Len(q) |-> [q[j] EXCEPT !.solo = FALSE]]

clearWindArrows(s) ==
  IF s.windArrowLayer = NoLayer THEN s
  ELSE [s EXCEPT !.mapLayers = s.mapLayers \ {s.windArrowLayer[1].id},
                 !.windArrowLayer = NoLayer,
                 !.renders = Overlapped(s.renders)]

\* clearRainDirection forgetting the layer and leaving it on the map.
clearRainDirection_Hides(s) == [s EXCEPT !.rainDirLayer = NoLayer]

clearRainDirection(s) ==
  IF s.rainDirLayer = NoLayer THEN s
  ELSE [s EXCEPT !.mapLayers = s.mapLayers \ {s.rainDirLayer[1].id},
                 !.rainDirLayer = NoLayer]

\* The forecast at lattice point k, and what its request can come to: the
\* requests of the first MaxFailing points may fail.
PointForecast(k) == Payload(<<10 + k>>, <<30 * (k % 12)>>)
PointResponses(k) ==
  {PointForecast(k)} \cup (IF k <= MaxFailing THEN {Failure("networkError")} ELSE {})

\* What the requests of points k+1 .. k+m can come to, as sequences.
RECURSIVE ResponseSeqs(_, _)
ResponseSeqs(k, m) ==
  IF m = 0 THEN {<<>>}
  ELSE {Append(q, r) : q \in ResponseSeqs(k, m - 1), r \in PointResponses(k + m)}

\* drawWindArrows leaving the layer of the previous call on the map.
drawWindArrows_Keeps(s) ==
  IF ~s.map THEN s
  ELSE LET id == NewLayerId(s)
       IN  [s EXCEPT !.windArrowLayer = <<[id |-> id, glyphs |-> {}]>>,
                     !.mapLayers = s.mapLayers \cup {id},
                     !.renders = Append(Overlapped(s.renders),
                                        [gen |-> id, i |-> 0, res |-> <<>>,
                                         solo |-> s.renders = <<>>])]

\* drawWindArrows up to its first await: the old layer goes, a new one is
\* attached and the first group's requests are issued.
drawWindArrows(s) ==
  IF ~s.map THEN s
  ELSE LET id == NewLayerId(s)
           s1 == clearWindArrows(s)
       IN  [s1 EXCEPT !.windArrowLayer = <<[id |-> id, glyphs |-> {}]>>,
                      !.mapLayers = s1.mapLayers \cup {id},
                      !.renders = Append(Overlapped(s1.renders),
                                         [gen |-> id, i |-> 0, res |-> <<>>,
                                          solo |-> s.renders = <<>>])]

Max10(spd) == IF spd = Undefined \/ spd = NaN THEN NaN ELSE IF spd > SpeedFloor THEN spd ELSE SpeedFloor

drawRainDirection(s) ==
  IF ~s.map THEN s
  ELSE LET id == NewLayerId(s)
           s1 == clearRainDirection(s)
           pts == Lattice(RainNx, RainNy)
           icon == arrowIcon(Max10(s1.windCenter.spd), s1.windCenter.deg, "rain")
       IN  [s1 EXCEPT !.rainDirLayer =
                         <<[id |-> id, glyphs |-> {Marker(id, k, icon) : k \in 1..Len(pts)}]>>,
                      !.mapLayers = s1.mapLayers \cup {id}]

RemoveAt(q, j) == [k \in 1..(Len(q) - 1) |-> IF k < j THEN q[k] ELSE q[k + 1]]

\* Promise.all settling with the first result.
allSettled_Any(size, res) == Len(res) >= 1

\* `await Promise.all(..)` resumes once each of the group's requests has
\* given its result.
allSettled(size, res) == Len(res) = size

\* The fallback taken from the wind the page started with.
sampleOr_Initial(s, r) == IF r = NoSample THEN CalmWind ELSE r[1]

\* `if (!w) w = windCenter`.
sampleOr(s, r) == IF r = NoSample THEN s.windCenter ELSE r[1]

\* The requests of the next points of render j's group settle with resps.
\* A group's requests are independent and nothing runs on a single result,
\* so they are taken in the order of their points.  With the last of them,
\* drawWindArrows resumes in the same turn: it adds the group's markers to
\* windArrowLayer (which throws if that is null) and issues the next group.
sampleSettled(s, j, resps) ==
  LET t == s.renders[j]
      pts == Lattice(WindNx, WindNy)
      size == Cardinality(Batch(Len(pts), t.i))
      res == t.res \o [k \in 1..Len(resps) |-> fetchPointWind(resps[k])]
  IN  IF ~allSettled(size, res)
        THEN [s EXCEPT !.renders[j].res = res]
      ELSE IF s.windArrowLayer = NoLayer
        THEN [s EXCEPT !.renders = RemoveAt(s.renders, j)]
      ELSE LET new == {Marker(t.gen, t.i + idx,
                              arrowIcon(sampleOr(s, res[idx]).spd, sampleOr(s, res[idx]).deg, "wind")) :
                         idx \in 1..Len(res)}
               s1 == [s EXCEPT !.windArrowLayer[1].glyphs = s.windArrowLayer[1].glyphs \cup new]
           IN  IF t.i + BatchSize < Len(pts)
                 THEN [s1 EXCEPT !.renders[j] = [t EXCEPT !.i = t.i + BatchSize, !.res = <<>>]]
                 ELSE [s1 EXCEPT !.renders = RemoveAt(s1.renders, j)]

\* The resumed drawWindArrows() call j throws: its group is complete and
\* windArrowLayer is null, so `.addTo(windArrowLayer)` raises a TypeError
\* that nothing catches, and the promise of the call rejects.
sampleThrows(s, j, resps) ==
  LET t == s.renders[j]
      size == Cardinality(Batch(WindNx * WindNy, t.i))
  IN  allSettled(size, t.res \o resps) /\ s.windArrowLayer = NoLayer

\* refreshCenterWind() up to its await; then names what the caller does once
\* it has settled.
refreshCenterWind(s, then) ==
  IF ~s.map THEN s
  ELSE [s EXCEPT !.centerTasks = Append(s.centerTasks, [then |-> then, at |-> s.mapCenter])]

\* windParticlesToggle, rainDirToggle and windArrowsToggle "change"
\* listeners; the checkbox already holds its new state.
windParticlesChange(s, p, r) ==
  IF s.windParticlesToggle THEN startWindParticles(s, p, r) ELSE stopWindParticles(s)
rainDirChange(s) == IF s.rainDirToggle THEN drawRainDirection(s) ELSE clearRainDirection(s)
windArrowsChange(s) == IF s.windArrowsToggle THEN drawWindArrows(s) ELSE clearWindArrows(s)

\* What follows `await refreshCenterWind()` in the moveend/zoomend listener.
afterMove(s) ==
  LET s1 == IF s.rainDirToggle THEN drawRainDirection(s) ELSE s
  IN  IF s1.windArrowsToggle THEN drawWindArrows(s1) ELSE s1

\* The callback initMap passes to refreshCenterWind().then.
afterInit(s, p, r) ==
  afterMove(IF s.windParticlesToggle THEN startWindParticles(s, p, r) ELSE s)

\* The center request of call k settles with resp: `if (w) windCenter = w`,
\* and the caller goes on in the same turn.
centerSettled(s, k, resp, p, r) ==
  LET w == fetchPointWind(resp)
      then == s.centerTasks[k].then
      s1 == [s EXCEPT !.centerTasks = RemoveAt(s.centerTasks, k),
                      !.windCenter = IF w = NoSample THEN s.windCenter ELSE w[1]]
  IN  IF then = "init" THEN afterInit(s1, p, r)
      ELSE IF then = "move" THEN afterMove(s1)
      ELSE s1

\* ------------------------------------------------------------ favorites
\* The positions favorites are taken at lie on one meridian and are counted
\* in steps of 100 m from the southernmost: two of them 300 m apart, closer
\* pairs, and six that are more than 300 m from each other.
FavPlaces == {0, 2, 3, 4, 8, 12, 16, 20}

\* distKm between two of these positions, in metres.
DistM(a, b) == 100 * (IF a < b THEN b - a ELSE a - b)

FavNear == 300        \* 0.3 km
FavSame == 1          \* 0.001 km
FavMax == 5           \* favs.slice(0,5)

\* addFavorite putting the new favorite after the ones it keeps.
addFavorite_Pushes(s, f) ==
  LET far(x) == DistM(x.at, f.at) > FavNear
      all == Append(SelectSeq(s.favs, far), f)
  IN  [s EXCEPT !.favs = SubSeq(all, 1, IF Len(all) < FavMax THEN Len(all) ELSE FavMax)]

\* addFavorite(f): filter, unshift, slice, setFavs.
addFavorite(s, f) ==
  LET far(x) == DistM(x.at, f.at) > FavNear
      all == <<f>> \o SelectSeq(s.favs, far)
  IN  [s EXCEPT !.favs = SubSeq(all, 1, IF Len(all) < FavMax THEN Len(all) ELSE FavMax)]

\* removeFavorite(lat, lon).
removeFavorite(s, at) ==
  LET other(x) == DistM(x.at, at) > FavSame
  IN  [s EXCEPT !.favs = SelectSeq(s.favs, other)]

\* --------------------------------------------------------------- search
\* What the user leaves in the search box: nothing, blanks around one
\* letter, two letters, two queries of three letters, one of them also with
\* blanks around it, and a longer one.
Typed ==
  { <<>>, <<" ", " ", "a", " ">>, <<"a", "b">>, <<"a", "b", "c">>,
    <<" ", "a", "b", "c", " ">>, <<"a", "b", "d">>, <<"a", "b", "c", "d">> }

\* String.prototype.trim on a sequence of characters.
RECURSIVE TrimStart(_)
TrimStart(v) == IF v # <<>> /\ Head(v) = " " THEN TrimStart(Tail(v)) ELSE v
RECURSIVE TrimEnd(_)
TrimEnd(v) == IF v # <<>> /\ v[Len(v)] = " " THEN TrimEnd(SubSeq(v, 1, Len(v) - 1)) ELSE v
Trim(v) == TrimEnd(TrimStart(v))

MinQuery == 3         \* q.length < 3

\* The panel as the page delivers it: hidden and empty; items is the list
\* of the queries whose candidates the panel holds, empty or of one query.
NoResults == [hidden |-> TRUE, items |-> <<>>]

hideResults(s) == [s EXCEPT !.searchResults.hidden = TRUE]

\* renderResults(items), the items being the candidates for query q, or none.
renderResults(s, items) ==
  IF items = <<>> THEN hideResults([s EXCEPT !.searchResults.items = <<>>])
  ELSE [s EXCEPT !.searchResults = [hidden |-> FALSE, items |-> items]]

\* The handle setTimeout returns: one no pending timer has and that is not
\* the one t still holds.
NewSearchHandle(s) ==
  CHOOSE h \in 1..(Cardinality(s.searchTimers) + 2) :
    /\ h # s.searchT
    /\ \A tm \in s.searchTimers : tm.h # h

clearTimeout(s, h) == [s EXCEPT !.searchTimers = {tm \in s.searchTimers : tm.h # h}]

\* The input listener leaving the pending timer to run.
searchInput_Keeps(s) ==
  LET q == Trim(s.citySearch)
  IN  IF Len(q) < MinQuery THEN hideResults(s)
      ELSE LET h == NewSearchHandle(s)
           IN  [s EXCEPT !.searchT = h, !.searchTimers = s.searchTimers \cup {[h |-> h, q |-> q]}]

\* citySearch "input" listener; the box already holds its new value.
searchInput(s) ==
  LET q == Trim(s.citySearch)
      s1 == IF s.searchT # 0 THEN clearTimeout(s, s.searchT) ELSE s
  IN  IF Len(q) < MinQuery THEN hideResults(s1)
      ELSE LET h == NewSearchHandle(s1)
           IN  [s1 EXCEPT !.searchT = h, !.searchTimers = s1.searchTimers \cup {[h |-> h, q |-> q]}]

\* The timer callback: searchCity(q) up to its await.
searchCity(s, tm) ==
  [s EXCEPT !.searchTimers = s.searchTimers \ {tm},
            !.searchTasks = Append(s.searchTasks, tm.q),
            !.lastQuery = <<tm.q>>]

\* What a geocoding request comes to: candidates, none, or a failure.
SearchOutcomes == {"items", "empty", "failed"}

\* searchCity call k after its await.
searchSettled(s, k, outcome) ==
  LET q == s.searchTasks[k]
      s1 == [s EXCEPT !.searchTasks = RemoveAt(s.searchTasks, k)]
  IN  IF outcome = "failed" THEN hideResults(s1)
      ELSE renderResults(s1, IF outcome = "items" THEN <<q>> ELSE <<>>)

\* --------------------------------------------------------------- alerts
\* Hourly wind speeds in km/h: every series of up to MaxHours values, and
\* longer ones with a strong wind early and a stronger one later, a strong
\* wind in the fourth and in the fifth hour, and one after the sixth.
WindValues == {0, 60, 80}
RECURSIVE WindSeriesOfLen(_)
WindSeriesOfLen(n) ==
  IF n = 0 THEN {<<>>}
  ELSE {Append(a, v) : a \in WindSeriesOfLen(n - 1), v \in WindValues}
WindSeries ==
  UNION {WindSeriesOfLen(n) : n \in 0..MaxHours}
    \cup { <<60, 0, 0, 0, 80>>, <<0, 0, 0, 60>>, <<0, 0, 0, 60, 0, 80>>,
           <<0, 0, 0, 0, 60>>, <<80, 0, 0, 60>>, <<0, 0, 0, 0, 0, 0, 80>> }

\* The precipitation series an alert check reads: none, rain in 45 minutes,
\* rain in 105 minutes.
AlertRain == { <<>>, LongSeries, <<0, 0, 0, 0, 0, 0, 0, 30>> }

PeakHours == 6        \* Math.min(arr.length, 6)
PeakWithin == 180     \* windPeak.minutes <= 180
PeakSpeed == 60       \* windPeak.kmh >= 60
RainWithin == 90      \* ev.startMin <= 90

\* findWindPeakSoon's loop from index i (0-based) with the best so far.
RECURSIVE PeakFrom(_, _, _)
PeakFrom(arr, i, best) ==
  IF i >= Len(arr) \/ i >= PeakHours THEN best
  ELSE PeakFrom(arr, i + 1, IF arr[i + 1] > best.kmh THEN [i |-> i, kmh |-> arr[i + 1]] ELSE best)

\* findWindPeakSoon(arr): <<>> for null, <<[minutes, kmh]>> for the peak.
findWindPeakSoon(arr) ==
  IF Len(arr) = 0 THEN <<>>
  ELSE LET best == PeakFrom(arr, 0, [i |-> 0, kmh |-> arr[1]])
       IN  << [minutes |-> best.i * 60, kmh |-> best.kmh] >>

\* The two conditions of checkAlerts.
rainSoon(arr) ==
  LET ev == computeRainEvent15(arr) IN ev.startMin # NoStart /\ ev.startMin <= RainWithin
windPeakSoon(arr) ==
  LET p == findWindPeakSoon(arr)
  IN  p # <<>> /\ p[1].minutes <= PeakWithin /\ p[1].kmh >= PeakSpeed

\* checkAlerts() up to its await.
checkAlerts(s) == IF ~s.map THEN s ELSE [s EXCEPT !.alertTasks = Append(s.alertTasks, s.mapCenter)]

\* checkAlerts call k after its awaits: a rejection is swallowed by the
\* caller's catch; otherwise each condition that is met and whose key is not
\* in its cooldown stores the key and pushes a toast.
checkAlertsSettled(s, k, ok, rain, wind) ==
  LET at == s.alertTasks[k]
      s1 == [s EXCEPT !.alertTasks = RemoveAt(s.alertTasks, k)]
      ev == computeRainEvent15(rain)
      rainKey == <<"rain", at, ev.startMin, 0>>
      rains == rainSoon(rain) /\ rainKey \notin s.alertState
      s2 == IF rains
              THEN [s1 EXCEPT !.alertState = s1.alertState \cup {rainKey},
                              !.alertToasts = <<[kind |-> "rain", minutes |-> ev.startMin, kmh |-> 0]>>]
              ELSE [s1 EXCEPT !.alertToasts = <<>>]
      p == findWindPeakSoon(wind)
      windKey == <<"wind", at, p[1].minutes, p[1].kmh>>
      blows == windPeakSoon(wind) /\ windKey \notin s2.alertState
      s3 == IF blows
              THEN [s2 EXCEPT !.alertState = s2.alertState \cup {windKey},
                              !.alertToasts = Append(s2.alertToasts,
                                 [kind |-> "wind", minutes |-> p[1].minutes, kmh |-> p[1].kmh])]
              ELSE s2
  IN  IF ok THEN [s3 EXCEPT !.windH = wind] ELSE s1

\* ----------------------------------------------------------------- Init
\* The script's initialisers (part_001:11-26) and the controls as the page
\* delivers them.  The markup of #timeline is not part of the script, so its
\* max attribute is any value up to InitSliderMax; the radar checkboxes start
\* checked and the wind checkboxes unchecked, and the user can flip them, turn
\* the theme and resize the window before initMap has run.  The canvas has
\* the size of a canvas element without attributes.
Init ==
  /\ map = FALSE
  /\ frames = <<>>
  /\ frameIndex = 0
  /\ anim = Null
  /\ radarLayer = [created |-> FALSE, url |-> NoUrl, onMap |-> FALSE]
  /\ \E m \in 0..InitSliderMax : \E v \in 0..m : slider = [min |-> 0, max |-> m, value |-> v]
  /\ timeLabel = NoLabel
  /\ statusText = ""
  /\ playBtnText = PauseIcon
  /\ radarToggle = TRUE
  /\ rainAutoToggle = TRUE
  /\ timers = {}
  /\ due = {}
  /\ loadTask = "none"
  /\ viewport = [w |-> 7 * MaxSide, h |-> 7 * MaxSide]
  /\ canvas = [w |-> 300, h |-> 150, ink |-> FALSE]
  /\ dark = FALSE
  /\ windRunning = FALSE
  /\ windParticles = [length |-> 0, head |-> <<>>]
  /\ windCenter = CalmWind
  /\ rafPending = [fresh |-> 0, stale |-> 0]
  /\ windParticlesToggle = FALSE
  /\ rainDirToggle = FALSE
  /\ windArrowsToggle = FALSE
  /\ mapCenter = 0
  /\ centerTasks = <<>>
  /\ windArrowLayer = NoLayer
  /\ rainDirLayer = NoLayer
  /\ mapLayers = {}
  /\ renders = <<>>
  /\ clickTasks = 0
  /\ rain15 = <<>>
  /\ popup = NoPopup
  /\ favs = <<>>
  /\ adds = 0
  /\ citySearch = <<>>
  /\ searchT = 0
  /\ searchTimers = {}
  /\ searchTasks = <<>>
  /\ searchResults = NoResults
  /\ lastQuery = <<>>
  /\ alertTasks = <<>>
  /\ windH = <<>>
  /\ alertState = {}
  /\ alertToasts = <<>>
  /\ lastOp = [name |-> "init", arg |-> 0, data |-> NoData]

Op(n, a) == lastOp' = [name |-> n, arg |-> a, data |-> NoData]

\* --------------------------------------------------------------- actions
\* initMap: creates the map, sizes the canvas, calls loadRadarFrames() (which
\* suspends at the fetch), refreshCenterWind() (which suspends at its sample),
\* startRadarAuto() and startAlertLoop() (whose first checkAlerts() suspends
\* at its forecast).
InitMap ==
  /\ ~map
  /\ Commit(checkAlerts(startRadarAuto(refreshCenterWind(
              loadBegin(resizeWindCanvas([State EXCEPT !.map = TRUE])), "init"))))
  /\ loadTask' = "fetch"
  /\ Op("event", 0)

\* loadRadarFrames() called again once the previous call has settled.
Load ==
  /\ map
  /\ loadTask = "none"
  /\ Commit(loadBegin(State))
  /\ loadTask' = "fetch"
  /\ Op("event", 0)

\* `await fetch(...)` fulfils with a response.
FetchFulfilled ==
  /\ loadTask = "fetch"
  /\ loadTask' = "json"
  /\ Op("event", 0)
  /\ UNCHANGED <<radarVars, windVars, popupVars, sideVars>>

\* `await fetch(...)` rejects: the catch block runs.
FetchRejected ==
  /\ loadTask = "fetch"
  /\ Commit(loadCatch(State))
  /\ loadTask' = "none"
  /\ Op("loadFailed", 0)

\* `await res.json()` fulfils with a catalog: the rest of the try block runs.
\* The step is recorded with the catalog delivered.
JsonFulfilled ==
  /\ loadTask = "json"
  /\ \E data \in Catalogs :
       /\ Commit(loadParsed(State, data))
       /\ lastOp' = [name |-> "loaded", arg |-> 0, data |-> data]
  /\ loadTask' = "none"

\* `await res.json()` rejects: the catch block runs.
JsonRejected ==
  /\ loadTask = "json"
  /\ Commit(loadCatch(State))
  /\ loadTask' = "none"
  /\ Op("loadFailed", 0)

\* showRadarFrame(i) for any argument.
Show(i) ==
  /\ map
  /\ Commit(showRadarFrame(State, i))
  /\ Op("show", i)
  /\ UNCHANGED loadTask

\* startRadarAuto() on its own.
Play ==
  /\ map
  /\ Commit(startRadarAuto(State))
  /\ Op("play", 0)
  /\ UNCHANGED loadTask

\* stopRadarAuto() on its own.
Pause ==
  /\ map
  /\ Commit(stopRadarAuto(State))
  /\ Op("pause", 0)
  /\ UNCHANGED loadTask

\* The user drags the scrubber to v; the input listener runs.
SliderInput(v) ==
  /\ v \in slider.min..slider.max
  /\ v # slider.value
  /\ Commit(sliderInput([State EXCEPT !.slider.value = v]))
  /\ Op("scrub", v)
  /\ UNCHANGED loadTask

PlayBtnClick ==
  /\ Commit(playBtnClick(State))
  /\ Op("event", 0)
  /\ UNCHANGED loadTask

\* The user flips a checkbox; its change listener exists once initMap has run.
RainAutoToggleChange ==
  /\ LET s == [State EXCEPT !.rainAutoToggle = ~rainAutoToggle]
     IN  Commit(IF map THEN rainAutoChange(s) ELSE s)
  /\ Op("event", 0)
  /\ UNCHANGED loadTask

RadarToggleChange ==
  /\ LET s == [State EXCEPT !.radarToggle = ~radarToggle]
     IN  Commit(IF map THEN radarToggleChange(s) ELSE s)
  /\ Op("event", 0)
  /\ UNCHANGED loadTask

\* The 700 ms of an active interval timer elapse: its task is queued.
TimerDue(h) ==
  /\ h \in timers
  /\ h \notin due
  /\ Commit([State EXCEPT !.due = due \cup {h}])
  /\ Op("event", 0)
  /\ UNCHANGED loadTask

\* A queued timer task runs: the callback is called if the timer is still
\* active, and the task is dropped if clearInterval has removed it.
TimerTask(h) ==
  /\ h \in due
  /\ LET s == [State EXCEPT !.due = due \ {h}]
     IN  IF h \in timers
           THEN Commit(tickCallback(s)) /\ Op("tick", 0)
           ELSE Commit(s) /\ Op("tickDropped", 0)
  /\ UNCHANGED loadTask

\* Arguments of a showRadarFrame call: NaN, every index of the longest frame
\* list, and one past its end.
ShowArgs == {NaN} \cup 0..(MaxPast + MaxNowcast)

Next ==
  \/ InitMap
  \/ Load
  \/ FetchFulfilled
  \/ FetchRejected
  \/ JsonFulfilled
  \/ JsonRejected
  \/ \E i \in ShowArgs : Show(i)
  \/ Play
  \/ Pause
  \/ \E v \in 0..(MaxPast + MaxNowcast + InitSliderMax) : SliderInput(v)
  \/ PlayBtnClick
  \/ RainAutoToggleChange
  \/ RadarToggleChange
  \/ \E h \in timers : TimerDue(h)
  \/ \E h \in due : TimerTask(h)

Spec == Init /\ [][Next]_vars

\* The radar timeline as the page drives it: initMap, the load it starts,
\* the user's controls and the timer, without calls of the timeline
\* functions from elsewhere.
PageNext ==
  \/ InitMap
  \/ FetchFulfilled
  \/ FetchRejected
  \/ JsonFulfilled
  \/ JsonRejected
  \/ \E v \in 0..(MaxPast + MaxNowcast + InitSliderMax) : SliderInput(v)
  \/ PlayBtnClick
  \/ RainAutoToggleChange
  \/ RadarToggleChange
  \/ \E h \in timers : TimerDue(h)
  \/ \E h \in due : TimerTask(h)

PageSpec == Init /\ [][PageNext]_vars

\* The radar timeline with its functions called from anywhere, but for
\* showRadarFrame(i), which only load, tick and scrub call here.
TimelineNext ==
  \/ InitMap
  \/ Load
  \/ FetchFulfilled
  \/ FetchRejected
  \/ JsonFulfilled
  \/ JsonRejected
  \/ Play
  \/ Pause
  \/ \E v \in 0..(MaxPast + MaxNowcast + InitSliderMax) : SliderInput(v)
  \/ PlayBtnClick
  \/ RainAutoToggleChange
  \/ RadarToggleChange
  \/ \E h \in timers : TimerDue(h)
  \/ \E h \in due : TimerTask(h)

TimelineSpec == Init /\ [][TimelineNext]_vars

\* ---------------------------------------------------------- wind actions
\* The particles newParticle() can return where a step calls it: all of
\* Draws for a new pool or a respawn, and a single one where the step makes
\* no call.
PoolDraws(s, starts) == IF starts THEN Draws(s) ELSE {CHOOSE p \in Draws(s) : TRUE}
RespawnDraws(s, p) ==
  IF leaves(s, advected(s, p)) THEN Draws(s) ELSE {CHOOSE r \in Draws(s) : TRUE}
HeadDraws(s) ==
  IF s.windRunning /\ s.windParticles.head # <<>>
    THEN RespawnDraws(s, s.windParticles.head[1])
    ELSE {CHOOSE r \in Draws(s) : TRUE}

\* The user resizes the window to v; the resize listener exists once initMap
\* has run.
Resize(v) ==
  /\ v # viewport
  /\ LET s == [State EXCEPT !.viewport = v]
     IN  Commit(IF map THEN resizeWindCanvas(s) ELSE s)
  /\ Op("event", 0)
  /\ UNCHANGED loadTask

\* themeBtn "click" listener.
ThemeClick ==
  /\ Commit([State EXCEPT !.dark = ~dark])
  /\ Op("event", 0)
  /\ UNCHANGED loadTask

\* The user flips the particles checkbox.
WindParticlesToggleChange ==
  /\ windParticlesToggle \/ Pending(State) < MaxLoops
  /\ LET s == [State EXCEPT !.windParticlesToggle = ~windParticlesToggle]
     IN  IF map
           THEN /\ \E p \in PoolDraws(s, s.windParticlesToggle) :
                     \E r \in RespawnDraws(s, p) : Commit(windParticlesChange(s, p, r))
                /\ Op("event", 0)
           ELSE Commit(s) /\ Op("event", 0)
  /\ UNCHANGED loadTask

\* The states n callbacks of one display refresh can leave, run one after
\* the other from s.
RECURSIVE runCallbacks(_, _)
runCallbacks(s, n) ==
  IF n = 0 THEN {s}
  ELSE UNION {runCallbacks(loopParticles(s, r), n - 1) : r \in HeadDraws(s)}

\* A display refresh: the browser runs the callbacks requested before it;
\* what they request in turn waits for the next refresh.
AnimationFrame ==
  /\ Pending(State) > 0
  /\ \E s \in runCallbacks([State EXCEPT !.rafPending = [fresh |-> 0, stale |-> 0]],
                            Pending(State)) : Commit(s)
  /\ Op("event", 0)
  /\ UNCHANGED loadTask

\* map "moveend zoomend" listener up to its await, the view having come to
\* rest on place c, with fewer than most center samples in flight.
MapMoveEnd(c, most) ==
  /\ map
  /\ Len(centerTasks) < most
  /\ Commit(refreshCenterWind(resizeWindCanvas([State EXCEPT !.mapCenter = c]), "move"))
  /\ Op("event", 0)
  /\ UNCHANGED loadTask

\* The listener after a zoom or a move that ends where it began.
MoveEnd == MapMoveEnd(mapCenter, MaxCenter)

\* goToLocation(lat, lon, label) up to its await: the view is set on place c
\* and the center is sampled; what follows the await is what follows it in
\* the moveend listener.
GoToLocation(c, most) ==
  /\ map
  /\ Len(centerTasks) < most
  /\ Commit(refreshCenterWind([State EXCEPT !.mapCenter = c], "move"))
  /\ Op("event", 0)
  /\ UNCHANGED loadTask

\* The sample of a refreshCenterWind() call in flight settles.
CenterSettled(k) ==
  /\ k \in 1..Len(centerTasks)
  /\ ~windArrowsToggle \/ Len(renders) < MaxRenders
  /\ ~(centerTasks[k].then = "init" /\ windParticlesToggle) \/ Pending(State) < MaxLoops
  /\ \E resp \in ResponsesAt(centerTasks[k].at) :
       /\ \E p \in PoolDraws(State, centerTasks[k].then = "init" /\ windParticlesToggle) :
            \E r \in RespawnDraws([State EXCEPT !.windCenter =
                                      sampleOr(State, fetchPointWind(resp))], p) :
              Commit(centerSettled(State, k, resp, p, r))
       /\ Op("event", 0)
  /\ UNCHANGED loadTask

\* The user flips the rain-direction checkbox.
RainDirToggleChange ==
  /\ LET s == [State EXCEPT !.rainDirToggle = ~rainDirToggle]
     IN  Commit(IF map THEN rainDirChange(s) ELSE s)
  /\ Op("event", 0)
  /\ UNCHANGED loadTask

\* The user flips the wind-arrows checkbox.
WindArrowsToggleChange ==
  /\ windArrowsToggle \/ Len(renders) < MaxRenders
  /\ LET s == [State EXCEPT !.windArrowsToggle = ~windArrowsToggle]
     IN  Commit(IF map THEN windArrowsChange(s) ELSE s)
  /\ Op("event", 0)
  /\ UNCHANGED loadTask

\* Requests of the group render j waits for settle: first all but one of
\* them, then the last.
SampleSettled(j) ==
  /\ j \in 1..Len(renders)
  /\ LET t == renders[j]
         left == Cardinality(Batch(WindNx * WindNy, t.i)) - Len(t.res)
         m == IF left > 1 THEN left - 1 ELSE 1
     IN  \E resps \in ResponseSeqs(t.i + Len(t.res), m) :
           /\ Commit(sampleSettled(State, j, resps))
           /\ Op(IF sampleThrows(State, j, resps) THEN "rejected" ELSE "event", 0)
  /\ UNCHANGED loadTask

\* map "click" listener: onMapClick up to its await.
MapClick ==
  /\ map
  /\ clickTasks < MaxClicks
  /\ Commit([State EXCEPT !.clickTasks = clickTasks + 1])
  /\ Op("event", 0)
  /\ UNCHANGED loadTask

\* The forecast of an onMapClick() call in flight settles.
ClickSettled ==
  /\ clickTasks > 0
  /\ \/ \E arr \in Series : Commit(onMapClickSettled(State, TRUE, arr))
     \/ Commit(onMapClickSettled(State, FALSE, <<>>))
  /\ Op("event", 0)
  /\ UNCHANGED loadTask

\* addFavorite(f) for the position at; the favorite is named after the
\* moment it is added.
AddFavorite(at) ==
  /\ adds < MaxAdds
  /\ Commit(addFavorite([State EXCEPT !.adds = adds + 1], [name |-> adds + 1, at |-> at]))
  /\ Op("added", 0)
  /\ UNCHANGED loadTask

\* removeFavorite(lat, lon) for the position at.
RemoveFavorite(at) ==
  /\ Commit(removeFavorite(State, at))
  /\ Op("event", 0)
  /\ UNCHANGED loadTask

\* The user changes the text of the search box to v.
SearchInput(v) ==
  /\ v # citySearch
  /\ Commit(searchInput([State EXCEPT !.citySearch = v]))
  /\ Op("input", 0)
  /\ UNCHANGED loadTask

\* The 250 ms of a pending search timer have passed: its callback runs.
SearchTimerFires ==
  /\ Len(searchTasks) < MaxSearches
  /\ \E tm \in searchTimers : Commit(searchCity(State, tm))
  /\ Op("issued", 0)
  /\ UNCHANGED loadTask

\* The geocoding request of call k settles.
SearchSettled(k) ==
  /\ k \in 1..Len(searchTasks)
  /\ \E outcome \in SearchOutcomes : Commit(searchSettled(State, k, outcome))
  /\ Op("event", 0)
  /\ UNCHANGED loadTask

\* document "click" listener, for a click outside the box and the panel.
DocumentClick ==
  /\ Commit(hideResults(State))
  /\ Op("event", 0)
  /\ UNCHANGED loadTask

\* The 180 s of the alert timer have passed: checkAlerts() is called.
AlertTimer ==
  /\ map
  /\ Len(alertTasks) < MaxAlerts
  /\ Commit(checkAlerts(State))
  /\ Op("event", 0)
  /\ UNCHANGED loadTask

\* The forecast of checkAlerts call k settles.
AlertSettled(k) ==
  /\ k \in 1..Len(alertTasks)
  /\ \/ \E rain \in AlertRain : \E wind \in WindSeries :
          Commit(checkAlertsSettled(State, k, TRUE, rain, wind)) /\ Op("alertCheck", 0)
     \/ Commit(checkAlertsSettled(State, k, FALSE, <<>>, <<>>)) /\ Op("event", 0)
  /\ UNCHANGED loadTask

\* The cooldown of a stored key has passed.
CooldownOver ==
  /\ \E key \in alertState : Commit([State EXCEPT !.alertState = alertState \ {key}])
  /\ Op("event", 0)
  /\ UNCHANGED loadTask

\* The particle field: start, stop, redraw, and the events that reach it.
ParticleNext ==
  \/ InitMap
  \/ \E v \in Viewports : Resize(v)
  \/ ThemeClick
  \/ WindParticlesToggleChange
  \/ AnimationFrame
  \/ MoveEnd
  \/ \E k \in 1..MaxCenter : CenterSettled(k)

WindInit == Init /\ slider.max = 0

ParticleSpec == WindInit /\ [][ParticleNext]_vars

\* The center wind and the glyph layers.
ArrowNext ==
  \/ InitMap
  \/ MoveEnd
  \/ \E k \in 1..MaxCenter : CenterSettled(k)
  \/ WindArrowsToggleChange
  \/ \E j \in 1..MaxRenders : SampleSettled(j)

ArrowSpec == WindInit /\ [][ArrowNext]_vars

\* The center wind and the rain-direction layer, with a map that is moved
\* about and a window that is resized.
RainNext ==
  \/ InitMap
  \/ \E c \in Places : MapMoveEnd(c, MaxOverlap)
  \/ \E c \in Places : GoToLocation(c, MaxOverlap)
  \/ \E k \in 1..MaxOverlap : CenterSettled(k)
  \/ RainDirToggleChange
  \/ \E v \in Viewports : Resize(v)

RainSpec == WindInit /\ [][RainNext]_vars

\* The click popup.
ClickNext ==
  \/ InitMap
  \/ MapClick
  \/ ClickSettled

ClickSpec == WindInit /\ [][ClickNext]_vars

\* The favorites store.
FavNext ==
  \/ \E at \in FavPlaces : AddFavorite(at)
  \/ \E at \in FavPlaces : RemoveFavorite(at)

FavSpec == WindInit /\ [][FavNext]_vars

\* The alert checks.
AlertNext ==
  \/ InitMap
  \/ AlertTimer
  \/ \E k \in 1..MaxAlerts : AlertSettled(k)
  \/ CooldownOver

AlertSpec == WindInit /\ [][AlertNext]_vars

\* The search box.
SearchNext ==
  \/ \E v \in Typed : SearchInput(v)
  \/ SearchTimerFires
  \/ \E k \in 1..MaxSearches : SearchSettled(k)
  \/ DocumentClick

SearchSpec == WindInit /\ [][SearchNext]_vars

\* The two scheduled loops side by side: the radar timer and the particle
\* redraw, with what starts them.
LoopsNext ==
  \/ InitMap
  \/ FetchFulfilled
  \/ JsonFulfilled
  \/ PlayBtnClick
  \/ \E h \in timers : TimerDue(h)
  \/ \E h \in due : TimerTask(h)
  \/ CenterSettled(1)
  \/ WindParticlesToggleChange
  \/ AnimationFrame

LoopsSpec == WindInit /\ [][LoopsNext]_vars

\* ---------------------------------------------------------------- claims
N == Len(frames)
Shown(i) ==
  /\ radarLayer.created
  /\ radarLayer.url = TileUrl(FrameAt(frames, i))
Labelled(i) == timeLabel = FormatTime(FrameAt(frames, i).time)

\* C1: whenever the frame list is non-empty the cursor is an index of it:
\* 0 <= frameIndex < frames.length, and so never NaN.
C1_CursorInRange == N > 0 => (frameIndex # NaN /\ frameIndex >= 0 /\ frameIndex < N)

\* A tick has just wrapped the cursor of a list of two or more frames to 0.
C1_Witness == N >= 2 /\ lastOp.name = "tick" /\ frameIndex = 0 /\ anim # Null

\* Steps of playback other than the tick: starting, stopping, a timer becoming
\* due, a dropped timer task.
PlaybackSteps == {"play", "pause", "event", "tickDropped"}

\* C2: over a non-empty list of n frames a tick moves the cursor from i to
\* (i + 1) mod n and shows that frame (tile URL, time label, scrubber); starting,
\* stopping and the timer becoming due never move the cursor.
C2_TickAdvances ==
  [][ /\ (lastOp'.name = "tick" /\ N > 0) =>
           /\ frameIndex' = (frameIndex + 1) % N
           /\ frames' = frames
           /\ radarLayer'.created
           /\ radarLayer'.url = TileUrl(FrameAt(frames, frameIndex'))
           /\ timeLabel' = FormatTime(FrameAt(frames, frameIndex').time)
           /\ slider'.value = frameIndex'
      /\ (lastOp'.name \in PlaybackSteps) => frameIndex' = frameIndex ]_vars

\* A tick has moved the cursor to the last frame of a three-frame list and
\* that frame is the one shown.
C2_Witness ==
  /\ N = 3 /\ lastOp.name = "tick" /\ frameIndex = 2
  /\ Shown(2) /\ Labelled(2)

\* C3: at most one interval timer is active and anim is its handle (non-null
\* exactly when a timer is active); startRadarAuto() while a timer is active
\* changes neither the handle, the timers nor the cursor.
C3_SingleTimer ==
  /\ [](Cardinality(timers) <= 1 /\ (anim # Null <=> timers # {}) /\ (anim # Null => timers = {anim}))
  /\ [][ (lastOp'.name = "play" /\ anim # Null) => UNCHANGED radarVars ]_vars

\* startRadarAuto() has just run although the timer was active: the timer's
\* task was already queued, which only happens after the timer was started.
C3_Witness == lastOp.name = "play" /\ anim # Null /\ anim \in due /\ timers = {anim}

Display == <<frameIndex, radarLayer, timeLabel, slider, frames>>

\* A queued timer task runs (or is dropped).
TimerTaskRuns == due' # due /\ due' \subseteq due

\* C4: stopRadarAuto() leaves the handle null and no timer active; while the
\* handle is null a queued timer task is dropped without touching the cursor
\* or the display, and stopRadarAuto() with no timer running changes nothing.
C4_PauseStopsTicks ==
  /\ [](anim = Null => timers = {})
  /\ [][ /\ (lastOp'.name = "pause") => (anim' = Null /\ timers' = {} /\ UNCHANGED Display)
         /\ (lastOp'.name = "pause" /\ anim = Null) => UNCHANGED radarVars
         /\ (anim = Null /\ TimerTaskRuns) =>
               /\ lastOp'.name = "tickDropped"
               /\ UNCHANGED <<Display, anim, timers, statusText, playBtnText>> ]_vars

\* A timer task that was queued when the timer was stopped has been dropped.
C4_Witness == lastOp.name = "tickDropped" /\ anim = Null /\ N > 0

\* The catalog of the end-to-end scenario: 10 past and 2 nowcast frames.
ScenarioData == [past |-> PastOf(10), nowcast |-> NowcastOf(10, 2)]

LoadSucceeds == loadTask = "json" /\ loadTask' = "none" /\ lastOp'.name = "loaded"

\* C5: a load that delivers p >= 1 past and q nowcast frames makes frames the
\* past frames followed by the nowcast frames in their order, puts the cursor
\* on p-1 and the scrubber on [0, p+q-1] with value p-1; from any state the
\* 10 + 2 catalog gives cursor 9 and bounds [0, 11].
C5_LoadPlacesCursor ==
  /\ [][ (LoadSucceeds /\ Len(lastOp'.data.past) >= 1) =>
           LET past == lastOp'.data.past
               nowcast == lastOp'.data.nowcast
               p == Len(past)
               q == Len(nowcast)
           IN  /\ Len(frames') = p + q
               /\ \A i \in 1..p : frames'[i] = past[i]
               /\ \A j \in 1..q : frames'[p + j] = nowcast[j]
               /\ frameIndex' = p - 1
               /\ slider' = [min |-> 0, max |-> p + q - 1, value |-> p - 1] ]_vars
  /\ [](map => LET s == loadParsed(State, ScenarioData)
               IN  /\ Len(s.frames) = 12
                   /\ s.frameIndex = 9
                   /\ s.slider = [min |-> 0, max |-> 11, value |-> 9])

\* A load of 2 past and 1 nowcast frame has just completed.
C5_Witness ==
  /\ lastOp.name = "loaded" /\ Len(lastOp.data.past) = 2 /\ Len(lastOp.data.nowcast) = 1
  /\ frames = <<Frame(1), Frame(2), Frame(3)>> /\ frameIndex = 1
  /\ slider = [min |-> 0, max |-> 2, value |-> 1]

LoadFails ==
  /\ loadTask \in {"fetch", "json"}
  /\ loadTask' = "none"
  /\ lastOp'.name # "loaded"

\* C6: when the fetch or res.json() rejects, loadRadarFrames leaves frames, the
\* cursor, the scrubber, the radar layer, the time label and the timer as they
\* were, shows the error status and settles without rejecting.
C6_LoadFailsSoftly ==
  [][ LoadFails =>
        /\ UNCHANGED <<frames, frameIndex, slider, radarLayer, timeLabel, anim, timers, due>>
        /\ statusText' = ErrorText
        /\ lastOp'.name = "loadFailed" ]_vars

\* A reload has just failed while frames were loaded and playback was running.
C6_Witness ==
  /\ lastOp.name = "loadFailed" /\ statusText = ErrorText
  /\ N = 3 /\ frameIndex = 2 /\ anim # Null /\ radarLayer.created

\* C7: while frames is empty, showRadarFrame, startRadarAuto, a tick and a scrub
\* change none of the cursor, the radar layer, the time label and the timer
\* handle, and an empty catalog sets the "unavailable" status.
C7_EmptyIsInert ==
  [][ /\ (N = 0 /\ lastOp'.name \in {"show", "play", "tick", "scrub"}) =>
           UNCHANGED <<frameIndex, radarLayer, timeLabel, anim>>
      /\ (LoadSucceeds /\ Len(frames') = 0) =>
           (statusText' = Unavailable /\ UNCHANGED <<frameIndex, radarLayer, timeLabel, anim>>) ]_vars

ShowInRange == lastOp'.name = "show" /\ HasFrame(frames, lastOp'.arg)

C9_ShowOutOfRangeNoop ==
  [][ (lastOp'.name = "show" /\ ~HasFrame(frames, lastOp'.arg)) =>
        UNCHANGED <<radarVars, loadTask>> ]_vars

\* showRadarFrame(frames.length) has just run on a list that is being shown.
C9_Witness ==
  /\ lastOp.name = "show" /\ N > 0 /\ lastOp.arg = N
  /\ radarLayer.created /\ anim # Null

\* C10: a scrub to k puts the cursor and the display on frame k and leaves the
\* timer, its handle and its queued task as they were; a tick that follows
\* shows frame (k + 1) mod frames.length.
C10_ScrubJumps ==
  [][ /\ (lastOp'.name = "scrub") =>
           /\ frameIndex' = lastOp'.arg
           /\ slider'.value = lastOp'.arg
           /\ UNCHANGED <<anim, timers, due, frames>>
           /\ (N > 0 => /\ radarLayer'.created
                        /\ radarLayer'.url = TileUrl(FrameAt(frames, lastOp'.arg))
                        /\ timeLabel' = FormatTime(FrameAt(frames, lastOp'.arg).time))
      /\ (lastOp.name = "scrub" /\ lastOp'.name = "tick" /\ N > 0) =>
           /\ frameIndex' = (lastOp.arg + 1) % N
           /\ radarLayer'.url = TileUrl(FrameAt(frames, frameIndex')) ]_vars

\* A scrub has just run while the timer was active with its task queued.
C10_Witness ==
  /\ lastOp.name = "scrub" /\ N = 3 /\ frameIndex = 2
  /\ anim # Null /\ anim \in due /\ Shown(2) /\ Labelled(2)

\* ------------------------------------------------------- wind claims
\* C11: the pool holds exactly 650 particles while the particle field runs
\* and none while it does not, whatever redraws, respawns, theme changes,
\* resizes and center-wind updates have happened; a stopped field has a
\* cleared canvas.
C11_PoolSize ==
  /\ windRunning => (windParticles.length = 650 /\ windParticles.head # <<>>)
  /\ ~windRunning => (windParticles.length = 0 /\ windParticles.head = <<>> /\ ~canvas.ink)

\* The field runs in the dark theme, in a resized window and under the
\* sampled wind, and its first particle has been through redraws.
C11_Witness ==
  /\ windRunning /\ windParticles.length = 650
  /\ dark /\ viewport.w = 7 /\ windCenter.spd = ModelSpeed
  /\ windParticles.head[1].age > InitAge /\ canvas.ink

\* C12: a redraw callback that was pending when stopWindParticles() ran
\* draws nothing and does not re-arm itself: the refresh that runs such
\* callbacks leaves no more callbacks pending than the other callbacks it ran,
\* and changes neither canvas nor pool if it ran no other.
C12_StoppedCallbacksDead ==
  [][ (rafPending.stale > 0 /\ rafPending'.stale = 0) =>
        /\ rafPending'.fresh <= rafPending.fresh
        /\ rafPending.fresh = 0 => UNCHANGED <<canvas, windParticles>> ]_vars

\* C13: while the particle field runs, at the start of every redraw tick the
\* coordinates of the particles lie within the current canvas bounds, the
\* viewport having been resized or not.
C13_ParticlesInBounds ==
  (windRunning /\ windParticles.head # <<>>) =>
    LET p == windParticles.head[1]
    IN  /\ ~Less(p.x, 0) /\ ~Less(viewport.w, p.x)
        /\ ~Less(p.y, 0) /\ ~Less(viewport.h, p.y)

\* C14: for every source bearing d in [0, 360) the flow bearing is d turned
\* by half a circle, lies in [0, 360) and turned again gives d; a sample's
\* flow components are speed * sin and speed * cos of the flow bearing (in
\* thousandths), so bearing 90 at 10 km/h flows toward 270 with (u, v) =
\* (-10, 0); the rotation of an arrow glyph is the flow bearing, in the
\* function and in every glyph of the wind layer.
Bearings == {30 * k : k \in 0..11}
Speeds == {0, 10, ModelSpeed}
FlowBearingLaw ==
  /\ \A d \in 0..359 :
        /\ toDeg(d) \in 0..359
        /\ toDeg(d) - d \in {180, 0 - 180}
        /\ toDeg(toDeg(d)) = d
        /\ \A spd \in Speeds : arrowIcon(spd, d, "wind").rot = toDeg(d)
  /\ \A d \in Bearings, spd \in Speeds :
        LET w == fetchPointWind(Payload(<<spd>>, <<d>>))
        IN  /\ w # NoSample
            /\ w[1].spd = spd /\ w[1].deg = d
            /\ w[1].u = spd * Sin1000((d + 180) % 360)
            /\ w[1].v = spd * Cos1000((d + 180) % 360)
  /\ fetchPointWind(Payload(<<10>>, <<90>>)) = <<[spd |-> 10, deg |-> 90, u |-> 0 - 10000, v |-> 0]>>
C14_FlowBearing ==
  /\ FlowBearingLaw
  /\ WellFormed(windCenter) =>
        /\ windCenter.u = windCenter.spd * Sin1000((windCenter.deg + 180) % 360)
        /\ windCenter.v = windCenter.spd * Cos1000((windCenter.deg + 180) % 360)
  /\ windArrowLayer # NoLayer =>
        \A g \in windArrowLayer[1].glyphs :
          \/ g.icon.rot = (First(PointForecast(g.pt).deg) + 180) % 360
          \/ g.icon.rot \in {(0 + 180) % 360, (ModelBearing + 180) % 360, NaN}
C14_Witness ==
  /\ windCenter = [spd |-> ModelSpeed, deg |-> 90, u |-> 0 - 50000, v |-> 0]
  /\ windArrowLayer # NoLayer
  /\ \E g \in windArrowLayer[1].glyphs : g.pt = 1 /\ g.icon.rot = 270 /\ g.icon.spd = ModelSpeed
  /\ \E g \in windArrowLayer[1].glyphs : g.pt = 3 /\ g.icon.rot = 270 /\ g.icon.spd = 13

\* C15: whatever a sample request in flight comes to, fetchPointWind gives
\* null if it failed (network error, unparsable body, no hourly block, no
\* arrays, an array without a first entry), and a sample only when the first hourly speed and bearing
\* are both numbers, which are then the sample's speed and bearing.
C15_NullOnFailure ==
  \A k \in 1..(Len(centerTasks) + Len(renders)) :
  \A resp \in Responses \cup {Payload(<<ModelSpeed>>, <<>>), Payload(<<>>, <<ModelBearing>>)} :
    LET w == fetchPointWind(resp)
        present == resp.kind = "payload" /\ Len(resp.spd) > 0 /\ Len(resp.deg) > 0
    IN  /\ ~present => w = NoSample
        /\ present => (w # NoSample /\ w[1].spd = resp.spd[1] /\ w[1].deg = resp.deg[1])

\* C16: in every reachable state the center wind is a well-formed sample:
\* speed and source bearing are numbers, and so are the flow components; a
\* failed center sample leaves it as it was.
C16_CenterWellFormed == WellFormed(windCenter)

\* C17: the wind lattice has 9 x 6 = 54 points and the rain lattice 7 x 5 =
\* 35, from the south-west corner of the bounds to the north-east one.  A
\* drawWindArrows() call that starts takes the layer of the previous call off
\* the map; when it completes with no other call and no clear since it
\* started, the attached layer holds one glyph for each of the 54 points.  A
\* drawRainDirection() call leaves a layer of one glyph for each of the 35
\* points, and a second call takes the layer of the first off the map.
OnePerPoint(glyphs, n) ==
  /\ Cardinality(glyphs) = n
  /\ \A k \in 1..n : \E g \in glyphs : g.pt = k
LatticeLaw ==
  \A dims \in {<<WindNx, WindNy, 54>>, <<RainNx, RainNy, 35>>} :
    LET pts == Lattice(dims[1], dims[2])
    IN  /\ Len(pts) = dims[3]
        /\ pts[1] = [lon |-> <<0, dims[1] - 1>>, lat |-> <<0, dims[2] - 1>>]
        /\ pts[Len(pts)] = [lon |-> <<dims[1] - 1, dims[1] - 1>>, lat |-> <<dims[2] - 1, dims[2] - 1>>]
        /\ \A j, k \in 1..Len(pts) : pts[j] = pts[k] => j = k
        /\ \A k \in 1..Len(pts) : pts[k].lon[1] \in 0..(dims[1] - 1) /\ pts[k].lat[1] \in 0..(dims[2] - 1)
RenderStarts ==
  /\ windArrowLayer' # NoLayer
  /\ windArrowLayer' # windArrowLayer
  /\ windArrowLayer = NoLayer \/ windArrowLayer[1].id # windArrowLayer'[1].id
SoloRenderCompletes ==
  /\ Len(renders) = 1 /\ renders' = <<>>
  /\ renders[1].solo
C17_Step ==
  /\ (RenderStarts /\ windArrowLayer # NoLayer) => windArrowLayer[1].id \notin mapLayers'
  /\ RenderStarts => (windArrowLayer'[1].id \in mapLayers' /\ windArrowLayer'[1].glyphs = {})
  /\ SoloRenderCompletes =>
        /\ windArrowLayer' # NoLayer
        /\ windArrowLayer'[1].id = renders[1].gen
        /\ windArrowLayer'[1].id \in mapLayers'
        /\ OnePerPoint(windArrowLayer'[1].glyphs, 54)
        /\ \A g \in windArrowLayer'[1].glyphs : g.gen = renders[1].gen
C17_RainRender ==
  LET s1 == drawRainDirection(State)
      s2 == drawRainDirection(s1)
  IN  map =>
        /\ OnePerPoint(s1.rainDirLayer[1].glyphs, 35)
        /\ s1.rainDirLayer[1].id \in s1.mapLayers
        /\ rainDirLayer # NoLayer => rainDirLayer[1].id \notin s1.mapLayers
        /\ OnePerPoint(s2.rainDirLayer[1].glyphs, 35)
        /\ s2.rainDirLayer[1].id # s1.rainDirLayer[1].id
        /\ s1.rainDirLayer[1].id \notin s2.mapLayers
C17_LatticeRender == [](LatticeLaw /\ C17_RainRender) /\ [][C17_Step]_vars
C17_Witness ==
  /\ renders = <<>>
  /\ windArrowLayer # NoLayer
  /\ windArrowLayer[1].id = 2
  /\ mapLayers = {2}
  /\ OnePerPoint(windArrowLayer[1].glyphs, 54)
  /\ \A g \in windArrowLayer[1].glyphs : g.gen = 2

\* C18: the 54 points of a wind render are sampled in 7 groups, six of 8
\* and a last one of 6, that follow one another; a suspended render waits for
\* requests of one group only, and it goes on to the next group only in the
\* step in which the last outstanding request of its group settles.
GroupStarts == {BatchSize * g : g \in 0..6}
GroupLaw ==
  /\ \A i \in GroupStarts \ {48} : Cardinality(Batch(WindNx * WindNy, i)) = 8
  /\ Cardinality(Batch(WindNx * WindNy, 48)) = 6
  /\ UNION {Batch(WindNx * WindNy, i) : i \in GroupStarts} = 1..54
  /\ \A i, k \in GroupStarts : i < k =>
        \A a \in Batch(WindNx * WindNy, i), b \in Batch(WindNx * WindNy, k) : a < b
C18_Waiting ==
  \A j \in 1..Len(renders) :
    /\ renders[j].i \in GroupStarts
    /\ Len(renders[j].res) < Cardinality(Batch(WindNx * WindNy, renders[j].i))
C18_Step ==
  \A j \in 1..Len(renders), k \in 1..Len(renders') :
    (renders[j].gen = renders'[k].gen /\ renders'[k].i # renders[j].i) =>
      /\ renders'[k].i = renders[j].i + BatchSize
      /\ renders'[k].res = <<>>
      /\ Len(renders[j].res) = Cardinality(Batch(WindNx * WindNy, renders[j].i)) - 1
C18_GroupsInSequence == [](GroupLaw /\ C18_Waiting) /\ [][C18_Step]_vars
C18_Witness ==
  /\ Len(renders) = 1
  /\ renders[1].i = 48 /\ Len(renders[1].res) = 5
  /\ windArrowLayer # NoLayer
  /\ Cardinality(windArrowLayer[1].glyphs) = 48

\* C19: when a group of a wind render settles and the layer is there, the
\* layer gains exactly one glyph for each point of the group: from the
\* point's own forecast if its request succeeded, else from the center wind
\* of that moment; the render goes on whatever failed.
GroupSettles(j) ==
  /\ j \in 1..Len(renders)
  /\ windArrowLayer # NoLayer /\ windArrowLayer' # NoLayer
  /\ windArrowLayer'[1].id = windArrowLayer[1].id
  /\ \/ \E k \in 1..Len(renders') :
           renders'[k].gen = renders[j].gen /\ renders'[k].i = renders[j].i + BatchSize
     \/ /\ renders[j].i = 48
        /\ \A k \in 1..Len(renders') : renders'[k].gen # renders[j].gen
OwnGlyph(gen, k) ==
  LET w == fetchPointWind(PointForecast(k))[1]
  IN  Marker(gen, k, [rot |-> (w.deg + 180) % 360, spd |-> w.spd, kind |-> "wind"])
CenterGlyph(gen, k) ==
  Marker(gen, k, [rot |-> IF windCenter.deg = Undefined THEN NaN ELSE (windCenter.deg + 180) % 360,
                  spd |-> windCenter.spd, kind |-> "wind"])
C19_Step ==
  \A j \in 1..Len(renders) :
    GroupSettles(j) =>
      LET t == renders[j]
          group == Batch(WindNx * WindNy, t.i)
          new == {g \in windArrowLayer'[1].glyphs : g.gen = t.gen /\ g.pt \in group}
      IN  /\ \A k \in group :
                /\ Cardinality({g \in new : g.pt = k}) = 1
                /\ k - t.i <= Len(t.res) =>
                      IF t.res[k - t.i] = NoSample
                        THEN CenterGlyph(t.gen, k) \in new
                        ELSE OwnGlyph(t.gen, k) \in new
                /\ k - t.i > Len(t.res) =>
                      (CenterGlyph(t.gen, k) \in new \/ OwnGlyph(t.gen, k) \in new)
          /\ windArrowLayer'[1].glyphs = windArrowLayer[1].glyphs \cup new
C20_OneGeneration ==
  windArrowLayer # NoLayer =>
    /\ \A g \in windArrowLayer[1].glyphs : g.gen = windArrowLayer[1].id
    /\ Cardinality(windArrowLayer[1].glyphs) <= 54

\* C21: clearWindArrows() and clearRainDirection() leave their layer
\* variable null and the layer they found off the map; called when the
\* variable is null already (after a clear, or before any render) they change
\* nothing.  Unchecking the rain-direction box does just that.
WindClearLaw(s) ==
  LET s1 == clearWindArrows(s)
  IN  /\ s1.windArrowLayer = NoLayer
      /\ s.windArrowLayer # NoLayer =>
            (s.windArrowLayer[1].id \in s.mapLayers /\ s.windArrowLayer[1].id \notin s1.mapLayers)
      /\ s.windArrowLayer = NoLayer => s1 = s
      /\ clearWindArrows(s1) = s1
      /\ s1.rainDirLayer = s.rainDirLayer
RainClearLaw(s) ==
  LET s1 == clearRainDirection(s)
  IN  /\ s1.rainDirLayer = NoLayer
      /\ s.rainDirLayer # NoLayer =>
            (s.rainDirLayer[1].id \in s.mapLayers /\ s.rainDirLayer[1].id \notin s1.mapLayers)
      /\ s.rainDirLayer = NoLayer => s1 = s
      /\ clearRainDirection(s1) = s1
      /\ s1.windArrowLayer = s.windArrowLayer
C21_Clears ==
  \A s \in {State, drawWindArrows(State), drawRainDirection(State)} :
    WindClearLaw(s) /\ RainClearLaw(s)
RainUnchecked == map /\ rainDirToggle /\ ~rainDirToggle'
C21_Step ==
  RainUnchecked =>
    /\ rainDirLayer' = NoLayer
    /\ rainDirLayer # NoLayer => rainDirLayer[1].id \notin mapLayers'
    /\ rainDirLayer = NoLayer => mapLayers' = mapLayers
    /\ UNCHANGED <<windArrowLayer, windCenter, centerTasks>>
C21_ClearIdempotent == []C21_Clears /\ [][C21_Step]_vars
C21_Witness ==
  /\ map /\ ~rainDirToggle
  /\ rainDirLayer = NoLayer /\ mapLayers = {}
  /\ mapCenter = 1 /\ windCenter.spd = ModelSpeed + 10

\* C22: a step that renders the rain-direction layer leaves 35 glyphs that
\* all carry one icon, made from the center wind as it is when the render
\* runs: rotation (source bearing + 180) mod 360 and speed max(10, speed).
\* The step issues no sample request.
RainRenders == rainDirLayer' # NoLayer /\ rainDirLayer' # rainDirLayer
C22_Step ==
  RainRenders =>
    LET glyphs == rainDirLayer'[1].glyphs
        w == windCenter'
    IN  /\ OnePerPoint(glyphs, 35)
        /\ \A g, h \in glyphs : g.icon = h.icon
        /\ \A g \in glyphs : g.icon.kind = "rain" /\ g.gen = rainDirLayer'[1].id
        /\ WellFormed(w) =>
              \A g \in glyphs :
                /\ g.icon.rot = (w.deg + 180) % 360
                /\ g.icon.spd = IF w.spd > 10 THEN w.spd ELSE 10
        /\ Len(centerTasks') <= Len(centerTasks)
        /\ renders' = renders
C22_RainFromCenter == [][C22_Step]_vars
C22_Witness ==
  /\ rainDirLayer # NoLayer
  /\ windCenter = CalmWind
  /\ OnePerPoint(rainDirLayer[1].glyphs, 35)
  /\ \A g \in rainDirLayer[1].glyphs : g.icon = [rot |-> 180, spd |-> 10, kind |-> "rain"]

\* C23: once the map exists, a step that moves the view or resizes the
\* window starts a center sample, and when a center sample settles each
\* glyph layer whose box is checked is rendered anew while a layer whose box
\* is unchecked is left as it is.
SampleStarts ==
  /\ Len(centerTasks') = Len(centerTasks) + 1
  /\ centerTasks'[Len(centerTasks')].at = mapCenter'
SampleSettles == Len(centerTasks') = Len(centerTasks) - 1
C23_Step ==
  /\ (map /\ mapCenter' # mapCenter) => SampleStarts
  /\ (map /\ viewport' # viewport) => SampleStarts
  /\ SampleSettles =>
        /\ IF rainDirToggle THEN RainRenders ELSE rainDirLayer' = rainDirLayer
        /\ IF windArrowsToggle THEN RenderStarts ELSE windArrowLayer' = windArrowLayer
C23_RenderAfterMoveAndResize == [][C23_Step]_vars

\* C24: the rain event a click popup shows is that of the series it read:
\* start = 15 * (0-based index of the first value above 0.1 mm), duration =
\* 15 * (length of the run of values above 0.1 mm that begins there), total =
\* the sum of that run; no start, 0 and 0 when no value is above 0.1 mm.
\* For 0, 0, 0.05, 0.3, 0.4, 0, 0.2 this is 45, 30 and 0.7 mm.
Wet(arr) == {i \in 1..Len(arr) : arr[i] > 10}
RECURSIVE SumOver(_, _)
SumOver(arr, idx) ==
  IF idx = {} THEN 0
  ELSE LET i == CHOOSE j \in idx : TRUE IN arr[i] + SumOver(arr, idx \ {i})
IsRainEventOf(ev, arr) ==
  IF Wet(arr) = {} THEN ev = [startMin |-> NoStart, durationMin |-> 0, totalMm |-> 0]
  ELSE \E a \in Wet(arr), b \in Wet(arr) :
         /\ \A i \in Wet(arr) : a <= i
         /\ a <= b /\ (a..b) \subseteq Wet(arr) /\ (b + 1) \notin Wet(arr)
         /\ ev = [startMin |-> 15 * (a - 1), durationMin |-> 15 * (b - a + 1),
                  totalMm |-> SumOver(arr, a..b)]
C24_RainEvent ==
  /\ popup.kind = "forecast" => IsRainEventOf(popup.ev, rain15)
  /\ (popup.kind = "forecast" /\ rain15 = <<0, 0, 5, 30, 40, 0, 20>>) =>
        popup.ev = [startMin |-> 45, durationMin |-> 30, totalMm |-> 70]
  /\ (popup.kind = "forecast" /\ rain15 = <<>>) => popup.ev.startMin = NoStart
C24_Witness ==
  /\ popup.kind = "forecast"
  /\ rain15 = <<0, 0, 5, 30, 40, 0, 20>>
  /\ popup.ev = [startMin |-> 45, durationMin |-> 30, totalMm |-> 70]

\* C25: when the last of several overlapping refreshCenterWind() calls
\* settles and the center wind is already the sample taken for the present
\* map center, it still is afterwards: a response that arrives late for an
\* earlier center does not replace it.
SampleOf(c) == fetchPointWind(PlaceForecast(c))[1]
C25_Step ==
  (Len(centerTasks) = 1 /\ centerTasks' = <<>> /\ windCenter = SampleOf(mapCenter)) =>
    (windCenter' = SampleOf(mapCenter') \/ ~WellFormed(windCenter'))
C25_LatestCenterWins == [][C25_Step]_vars

\* C26: when requests of a wind render settle while windArrowLayer is null
\* (the box was unchecked meanwhile), the render raises no error and nothing
\* is added to the map.
LateResults ==
  /\ windArrowLayer = NoLayer
  /\ renders' # renders /\ Len(renders') <= Len(renders)
C26_Step ==
  LateResults =>
    /\ lastOp'.name # "rejected"
    /\ mapLayers' = mapLayers
    /\ windArrowLayer' = NoLayer
C26_LateResultsIgnored == [][C26_Step]_vars

\* C27: the lattice sample requests issued and not yet settled, over all
\* drawWindArrows() calls in progress, never number more than 8.
RECURSIVE Outstanding(_)
Outstanding(q) ==
  IF q = <<>> THEN 0
  ELSE Cardinality(Batch(WindNx * WindNy, Head(q).i)) - Len(Head(q).res) + Outstanding(Tail(q))
C27_BoundedRequests == Outstanding(renders) <= 8

\* C28: one redraw tick moves each particle once by the center wind and
\* adds 1 to its age; it replaces the particle by a new one (position within
\* the window, age below 120) exactly if the new position is outside the
\* window or the age is above 150; so after the tick the particle is within
\* the window and at most 150 ticks old.  The pool keeps its length.
Tick ==
  /\ windRunning /\ windRunning'
  /\ Pending(State) = 1 /\ rafPending' = [fresh |-> 1, stale |-> 0]
  /\ windParticles' # windParticles
Within(p, v) == ~Less(p.x, 0) /\ ~Less(v.w, p.x) /\ ~Less(p.y, 0) /\ ~Less(v.h, p.y)
InWindow(p, v) == p.x \in 0..v.w /\ p.y \in 0..v.h
C28_Moves ==
  Tick =>
    LET p == windParticles.head[1]
        q == windParticles'.head[1]
        moved == [x |-> Plus(p.x, Advect(windCenter.u, windCenter.spd)),
                  y |-> Minus(p.y, Advect(windCenter.v, windCenter.spd)),
                  age |-> p.age + 1]
        out == ~Within(moved, viewport) \/ moved.age > 150
    IN  /\ windParticles'.length = windParticles.length
        /\ UNCHANGED <<windCenter, viewport>>
        /\ ~out => q = moved
        /\ out => (InWindow(q, viewport) /\ q.x < viewport.w /\ q.y < viewport.h /\ q.age \in 0..119)
C28_Step ==
  /\ C28_Moves
  /\ Tick => (InWindow(windParticles'.head[1], viewport') /\ windParticles'.head[1].age <= 150)
C28_TickKeepsParticlesInside == [][C28_Step]_vars

\* A redraw of the particle field: the display refresh runs the pending
\* loopParticles callbacks.
Redraw ==
  /\ Pending(State) > 0
  /\ UNCHANGED <<windParticlesToggle, centerTasks>>
  /\ windParticles' # windParticles \/ rafPending' # rafPending \/ canvas' # canvas

\* C29: with the radar timer and the particle loop both active, a radar
\* tick moves the cursor to the next frame and leaves the particle pool, the
\* running flag, the pending redraws, the canvas and the center wind as they
\* were; a particle redraw leaves the frame list, the cursor, the timer
\* handle, the active timers and the radar layer as they were.
C29_Step ==
  /\ lastOp'.name = "tick" =>
        /\ frameIndex' = NextIndex(frameIndex, Len(frames))
        /\ UNCHANGED <<windParticles, windRunning, windCenter, rafPending, canvas>>
  /\ Redraw =>
        /\ lastOp'.name = "event"
        /\ UNCHANGED <<frames, frameIndex, anim, radarLayer, timers, due, slider, timeLabel>>
C29_LoopsIndependent == [][C29_Step]_vars
C29_Witness ==
  /\ lastOp.name = "tick"
  /\ frameIndex > 0
  /\ anim # Null
  /\ windRunning
  /\ Pending(State) > 0
  /\ windParticles.head # <<>>
  /\ windParticles.head[1].age > 1

\* What the readers of the center wind and the other handlers leave of it,
\* called in the state s: a redraw of the particles, starting and stopping
\* them, both glyph renders and their clears, a group of lattice samples
\* coming back (each kind of response, the failures taking the fallback),
\* the radar tick, the canvas resize and the click popup.
KeepsCenter(s) ==
  /\ \A r \in HeadDraws(s) : loopParticles(s, r).windCenter = s.windCenter
  /\ \A r \in HeadDraws(s) : startWindParticles(s, r, r).windCenter = s.windCenter
  /\ stopWindParticles(s).windCenter = s.windCenter
  /\ drawRainDirection(s).windCenter = s.windCenter
  /\ clearRainDirection(s).windCenter = s.windCenter
  /\ drawWindArrows(s).windCenter = s.windCenter
  /\ clearWindArrows(s).windCenter = s.windCenter
  /\ s.map =>
        LET s2 == drawWindArrows(s)
        IN  \A resp \in Responses :
              sampleSettled(s2, Len(s2.renders), [k \in 1..BatchSize |-> resp]).windCenter
                = s.windCenter
  /\ tickCallback(s).windCenter = s.windCenter
  /\ resizeWindCanvas(s).windCenter = s.windCenter
  /\ onMapClickSettled(s, TRUE, LongSeries).windCenter = s.windCenter

\* A center sample comes back.
CenterSettles == Len(centerTasks') = Len(centerTasks) - 1

\* C30: the center wind changes only in the step in which a refreshCenterWind
\* call gets its sample, and then to that sample; a particle redraw, a glyph
\* render, a lattice sample with its fallback, a radar tick and the other
\* handlers leave it as it is; and a particle redraw moves the particle by
\* the center wind of the moment it runs, so by the new value from the first
\* redraw after an update.
C30_Step ==
  /\ windCenter' # windCenter =>
        /\ CenterSettles
        /\ \E k \in 1..Len(centerTasks) :
              \E resp \in ResponsesAt(centerTasks[k].at) : <<windCenter'>> = fetchPointWind(resp)
  /\ Tick =>
        LET p == windParticles.head[1]
            q == windParticles'.head[1]
            moved == [x |-> Plus(p.x, Advect(windCenter.u, windCenter.spd)),
                      y |-> Minus(p.y, Advect(windCenter.v, windCenter.spd)),
                      age |-> p.age + 1]
        IN  /\ UNCHANGED windCenter
            /\ q = moved \/ (leaves(State, moved) /\ q \in Draws(State))
C31_Favorites ==
  /\ Len(favs) <= 5
  /\ \A i, j \in 1..Len(favs) : i < j => favs[i].name > favs[j].name
  /\ \A i, j \in 1..Len(favs) : i # j => DistM(favs[i].at, favs[j].at) > 300
  /\ (favs # <<>> /\ lastOp.name = "added") => favs[1].name = adds
C31_Witness ==
  /\ lastOp.name = "added"
  /\ Len(favs) = 5
  /\ adds > 5
  /\ favs[1].name = adds
  /\ favs[5].name = 1

\* A searchCity() call is issued.
SearchIssued == Len(searchTasks') > Len(searchTasks)

\* C32: at most one search timer is pending, and it is for the trimmed text
\* of the box, which has 3 characters or more; an input event issues no
\* request; a request is issued only by the timer callback, 250 ms after the
\* last input, for the trimmed text the box holds, of 3 characters or more,
\* and leaves no timer pending.
C32_Pending ==
  /\ Cardinality(searchTimers) <= 1
  /\ \A tm \in searchTimers : tm.q = Trim(citySearch) /\ Len(tm.q) >= 3 /\ tm.h = searchT
C32_Step ==
  /\ lastOp'.name = "input" => UNCHANGED searchTasks
  /\ SearchIssued =>
        /\ lastOp'.name = "issued"
        /\ searchTasks' = Append(searchTasks, Trim(citySearch))
        /\ Len(Trim(citySearch)) >= 3
        /\ Head(Trim(citySearch)) # " "
        /\ Trim(citySearch)[Len(Trim(citySearch))] # " "
        /\ searchTimers' = {}
        /\ UNCHANGED citySearch
C32_Debounce == []C32_Pending /\ [][C32_Step]_vars
C32_Witness ==
  /\ lastOp.name = "issued"
  /\ citySearch = <<" ", "a", "b", "c", " ">>
  /\ searchTasks = << <<"a", "b", "d">>, <<"a", "b", "c">> >>

\* A searchCity() call gets its response.
SearchSettles == Len(searchTasks') < Len(searchTasks)

\* C38: the panel, when shown, holds the candidates of the search issued
\* last; a response that comes while the box holds fewer than 3 characters
\* leaves the panel hidden.
C38_Step == (SearchSettles /\ Len(Trim(citySearch)) < 3) => searchResults'.hidden
C38_LatestSearchShown ==
  /\ [](~searchResults.hidden => searchResults.items = lastQuery)
  /\ [][C38_Step]_vars

\* C39: an alert check that reads hourly wind speeds of which one of the
\* first four (indices 0 to 3) is 60 km/h or more meets the strong-wind
\* condition, whatever the later speeds are.
C39_StrongWindAlert ==
  (lastOp.name = "alertCheck" /\ \E i \in 1..4 : i <= Len(windH) /\ windH[i] >= 60)
    => windPeakSoon(windH)

\* The page as initMap leaves it when the user has changed nothing: the
\* catalog requested, no frame yet, both radar checkboxes checked.
Untouched ==
  /\ map
  /\ loadTask = "json"
  /\ statusText = Loading
  /\ frames = <<>>
  /\ ~radarLayer.created
  /\ radarToggle
  /\ rainAutoToggle
  /\ playBtnText = PauseIcon
  /\ timeLabel = NoLabel

\* C33: when the catalog of the startup load comes with one frame or more
\* and the user has changed nothing, playback is running once the load has
\* settled: the handle is set and its timer is active.
C33_Step ==
  (Untouched /\ LoadSucceeds /\ Len(frames') >= 1) => (anim' # Null /\ anim' \in timers')
C33_AutoPlayAtStartup == [][C33_Step]_vars

\* C35: while the radar checkbox is unchecked the radar tile layer is not
\* attached to the map.
C35_UncheckedMeansDetached == ~radarToggle => ~radarLayer.onMap

\* C36: while there are frames, the scrubber value is the cursor, the
\* time label is the time of the frame under the cursor and the tile layer
\* is pointed at that frame.
C36_DisplayFollowsCursor ==
  N > 0 => (slider.value = frameIndex /\ Labelled(frameIndex) /\ Shown(frameIndex))

\* A scrub back to the first frame while playback runs and a second load is
\* waiting for its catalog.
C36_Witness ==
  /\ N >= 2
  /\ lastOp.name = "scrub"
  /\ frameIndex = 0
  /\ slider.value = 0
  /\ Shown(0) /\ Labelled(0)
  /\ anim # Null
  /\ loadTask = "json"

\* C37: after a click on the play button, a change of the auto-play
\* checkbox and a catalog load, the play button shows the pause icon exactly
\* when the radar timer is active, and the auto-play checkbox is checked
\* exactly when it is.
C37_Step ==
  (LoadSucceeds \/ rainAutoToggle' # rainAutoToggle \/ playBtnText' # playBtnText) =>
    /\ (playBtnText' = PauseIcon) <=> (anim' # Null /\ anim' \in timers')
    /\ rainAutoToggle' <=> (anim' # Null /\ anim' \in timers')
C37_ControlsShowPlayback == [][C37_Step]_vars

\* C34: at most one loopParticles callback is requested and not yet run,
\* so that a display refresh runs one redraw and a particle that stays in
\* the window gets one tick older by it.
C34_Step ==
  (Pending(State) > 0 /\ windRunning /\ windRunning' /\ UNCHANGED <<windParticlesToggle, centerTasks>>
     /\ windParticles' # windParticles /\ ~leaves(State, advected(State, windParticles.head[1]))) =>
    windParticles'.head[1] = advected(State, windParticles.head[1])
C34_OneRedrawPending == [](Pending(State) <= 1) /\ [][C34_Step]_vars

====
